---- MODULE Spec2Model ----
(***************************************************************************)
(* Model of smfc.py: the IPMI fan controller for Super Micro boards.       *)
(*                                                                         *)
(* Temperatures are floats (IEEE 754 doubles, as Python's), computed with  *)
(* the operations of the code in the order of the code, each one rounded   *)
(* to the nearest double; the files hold whole millidegrees, and the       *)
(* configuration's temperatures and sensitivity are whole degrees.  Time   *)
(* is counted in half seconds, so that the main loop's wait time polling / *)
(* 2 is a whole number of units (the clock values and the polling times    *)
(* of the model are doubles that the code's arithmetic on them keeps       *)
(* exact).                                                                 *)
(***************************************************************************)
EXTENDS Integers, Sequences, FiniteSets, TLC

VARIABLES
    pc,       \* position of main(): "ipmi", "cpu_init", "hd_init", "wait", "cpu", "hd", "sleep", "exit"
    now,      \* value of time.monotonic(), in half seconds
    conf,     \* the parsed configuration file and the fan mode found at start
    cpu,      \* my_cpu_zone: the CpuZone instance's attributes (made: it was constructed)
    hd,       \* my_hd_zone: the HdZone instance's attributes (made: it was constructed)
    ipmi,     \* the requests made through the Ipmi instance: fan modes, and the level last sent for each zone
    tick,     \* what the latest call of run(), or of HdZone.__init__, did (observation only)
    curve,    \* harness of the temperature-to-level mapping
    agg       \* harness of the temperature aggregation functions

vars == <<pc, now, conf, cpu, hd, ipmi, tick, curve, agg>>

-----------------------------------------------------------------------------
(* Bounds of the model *)

MaxTime == 6
MaxSteps == 6
MaxSensors == 3
MaxCalls == 2
MaxLate == 1

(* Constants of the program *)

CALC_MIN == 0
CALC_AVG == 1
CALC_MAX == 2
CPU_ZONE == 0
HD_ZONE == 1
STANDARD_MODE == 0
FULL_MODE == 1
OPTIMAL_MODE == 2
HEAVY_IO_MODE == 4
FanModes == {STANDARD_MODE, FULL_MODE, OPTIMAL_MODE, HEAVY_IO_MODE}
MinimumStart == 1000
MaximumStart == -1
MilliDegree == 1000
LevelLimit == 101

None == "None"

-----------------------------------------------------------------------------
(* Exact arithmetic: the numbers the files hold and the properties speak of *)

RECURSIVE GCD(_, _)
GCD(a, b) == IF b = 0 THEN a ELSE GCD(b, a % b)

Abs(x) == IF x < 0 THEN -x ELSE x

\* The rational n/d (d # 0) in lowest terms with a positive denominator.
Rat(n, d) ==
    LET g == GCD(Abs(n), Abs(d))
        s == IF d < 0 THEN -1 ELSE 1
    IN  [n |-> s * (n \div g), d |-> s * (d \div g)]

IntRat(i) == [n |-> i, d |-> 1]

RSub(a, b) == Rat(a.n * b.d - b.n * a.d, a.d * b.d)
RAbs(a) == [n |-> Abs(a.n), d |-> a.d]
RLess(a, b) == a.n * b.d < b.n * a.d
RLeq(a, b) == a.n * b.d <= b.n * a.d

-----------------------------------------------------------------------------
(* Float arithmetic: Python's float is the IEEE 754 double, and each        *)
(* operation gives the double nearest to the exact result, a tie going to   *)
(* the one with an even significand                                         *)

Limb == 2^30

\* A natural number below 2^60 is <<hi, lo>>, the number hi * 2^30 + lo.
NZero == <<0, 0>>

NOne == <<0, 1>>

NLess(a, b) == a[1] < b[1] \/ (a[1] = b[1] /\ a[2] < b[2])

NAdd(a, b) ==
    IF a[2] + b[2] >= Limb THEN <<a[1] + b[1] + 1, a[2] + b[2] - Limb>>
    ELSE <<a[1] + b[1], a[2] + b[2]>>

NSub(a, b) ==
    IF a[2] < b[2] THEN <<a[1] - b[1] - 1, a[2] + Limb - b[2]>>
    ELSE <<a[1] - b[1], a[2] - b[2]>>

\* a * 2^k, a \div 2^k and a % 2^k, for 0 <= k < 60.
NShl(a, k) ==
    IF k >= 30 THEN <<a[2] * 2^(k - 30), 0>>
    ELSE <<a[1] * 2^k + a[2] \div 2^(30 - k), (a[2] % 2^(30 - k)) * 2^k>>

NShr(a, k) ==
    IF k >= 30 THEN <<0, a[1] \div 2^(k - 30)>>
    ELSE <<a[1] \div 2^k, (a[1] % 2^k) * 2^(30 - k) + a[2] \div 2^k>>

NLow(a, k) ==
    IF k >= 30 THEN <<a[1] % 2^(k - 30), a[2]>>
    ELSE <<0, a[2] % 2^k>>

\* The number of binary digits of n, and of the zeros that end them (n > 0).
RECURSIVE BitLen(_)
BitLen(n) ==
    IF n = 0 THEN 0
    ELSE IF n >= 256 THEN 8 + BitLen(n \div 256)
    ELSE 1 + BitLen(n \div 2)

RECURSIVE EndZeros(_)
EndZeros(n) ==
    IF n % 256 = 0 THEN 8 + EndZeros(n \div 256)
    ELSE IF n % 2 = 0 THEN 1 + EndZeros(n \div 2)
    ELSE 0

NBitLen(a) == IF a[1] > 0 THEN 30 + BitLen(a[1]) ELSE BitLen(a[2])

NEndZeros(a) == IF a[2] = 0 THEN 30 + EndZeros(a[1]) ELSE EndZeros(a[2])

\* a * k for an integer k with 0 <= k <= 128 and a < 2^53: a[2] is taken in
\* two halves of 15 binary digits.
times_low(a, k) == ((k * (a[2] \div 2^15)) % 2^15) * 2^15 + k * (a[2] % 2^15)

NTimes(a, k) ==
    <<k * a[1] + (k * (a[2] \div 2^15)) \div 2^15 + times_low(a, k) \div Limb,
      times_low(a, k) % Limb>>

\* A float other than 0.0 is [neg, m, e], the number (-1)^neg * m * 2^e with
\* 2^52 <= m < 2^53; 0.0 is FZero.  The operations evaluate their operands
\* once: in {f(x) : x \in {a}} the operand a is evaluated where x is bound.
FZero == [neg |-> FALSE, m |-> NZero, e |-> 0]

\* The float (-1)^neg * (q + 1) * 2^e for a q with 53 binary digits.
next_up(neg, q, e) ==
    IF NAdd(q, NOne) = <<2^23, 0>> THEN [neg |-> neg, m |-> <<2^22, 0>>, e |-> e + 1]
    ELSE [neg |-> neg, m |-> NAdd(q, NOne), e |-> e]

\* The float nearest to (-1)^neg * (n + x) * 2^e where n has 53 + k binary
\* digits.
nearest_of(neg, n, e, more, k) ==
    IF n = NZero THEN FZero
    ELSE IF k <= 0 THEN [neg |-> neg, m |-> NShl(n, -k), e |-> e + k]
    ELSE IF \/ NLess(NShl(NOne, k - 1), NLow(n, k))
            \/ /\ NLow(n, k) = NShl(NOne, k - 1)
               /\ (more \/ NShr(n, k)[2] % 2 = 1)
    THEN next_up(neg, NShr(n, k), e + k)
    ELSE [neg |-> neg, m |-> NShr(n, k), e |-> e + k]

\* The float nearest to (-1)^neg * (n + x) * 2^e, where 0 <= x < 1 and more
\* tells whether x > 0.
Nearest(neg, n, e, more) ==
    CHOOSE f \in {nearest_of(neg, x, e, more, NBitLen(x) - 53) : x \in {n}} : TRUE

\* float(i) for an integer i with |i| < 2^30.
Float(i) ==
    IF i = 0 THEN FZero
    ELSE [neg |-> i < 0, m |-> NShl(<<0, Abs(i)>>, 53 - BitLen(Abs(i))),
          e |-> BitLen(Abs(i)) - 53]

FNeg(a) == IF a = FZero THEN a ELSE [a EXCEPT !.neg = ~a.neg]

\* abs(a)
FAbs(a) == [a EXCEPT !.neg = FALSE]

\* |a| < |b| for floats other than 0.0.
SmallerThan(a, b) == a.e < b.e \/ (a.e = b.e /\ NLess(a.m, b.m))

less(a, b) ==
    IF a = b THEN FALSE
    ELSE IF a = FZero THEN ~b.neg
    ELSE IF b = FZero THEN a.neg
    ELSE IF a.neg # b.neg THEN a.neg
    ELSE IF a.neg THEN SmallerThan(b, a)
    ELSE SmallerThan(a, b)

\* a < b
FLess(a, b) == \E x \in {a}, y \in {b} : less(x, y)

\* a <= b
FLeq(a, b) == \E x \in {a}, y \in {b} : x = y \/ less(x, y)

\* For |a| >= |b| > 0, b is brought to the exponent of a with six more
\* binary digits: the digits that are kept, and whether any is lost.
kept(a, b) == IF a.e - b.e >= 60 THEN NZero ELSE NShr(NShl(b.m, 6), a.e - b.e)

lost(a, b) == a.e - b.e >= 60 \/ NLow(NShl(b.m, 6), a.e - b.e) # NZero

\* a + b for |a| >= |b| > 0.
add_aligned(a, b) ==
    Nearest(a.neg,
            IF a.neg = b.neg THEN NAdd(NShl(a.m, 6), kept(a, b))
            ELSE IF lost(a, b) THEN NSub(NSub(NShl(a.m, 6), kept(a, b)), NOne)
            ELSE NSub(NShl(a.m, 6), kept(a, b)),
            a.e - 6,
            lost(a, b))

added(a, b) ==
    IF a = FZero THEN b
    ELSE IF b = FZero THEN a
    ELSE IF SmallerThan(a, b) THEN add_aligned(b, a)
    ELSE add_aligned(a, b)

\* a + b
FAdd(a, b) == CHOOSE f \in {added(x, y) : x \in {a}, y \in {b}} : TRUE

\* a - b
FSub(a, b) == CHOOSE f \in {added(x, y) : x \in {a}, y \in {FNeg(b)}} : TRUE

product(a, b) ==
    IF a = FZero \/ b = FZero THEN FZero
    ELSE Nearest(a.neg # b.neg, NTimes(b.m, NShr(a.m, NEndZeros(a.m))[2]),
                 a.e + NEndZeros(a.m) + b.e, FALSE)

\* a * b where a is float(i) for an integer i with |i| < 128.
FMul(a, b) == CHOOSE f \in {product(x, y) : x \in {a}, y \in {b}} : TRUE

\* Seven binary digits of the long division by d (2^52 <= d < 2^53): st is
\* <<remainder, quotient>>, n the remainder times 2^7; the digits are at
\* least digits, the quotient of the leading parts of n and d, and at most
\* one more.
div_digits(st, d, n, digits) ==
    CHOOSE res \in {IF NLess(r, d) THEN <<r, NAdd(NShl(st[2], 7), <<0, digits>>)>>
                    ELSE <<NSub(r, d), NAdd(NShl(st[2], 7), <<0, digits + 1>>)>> :
                        r \in {NSub(n, NTimes(d, digits))}} : TRUE

div_step(st, d) ==
    CHOOSE res \in {div_digits(st, d, n, n[1] \div (d[1] + 1)) : n \in {NShl(st[1], 7)}} :
        TRUE

\* i more steps of the division.
RECURSIVE div_loop(_, _, _)
div_loop(st, d, i) ==
    IF i = 0 THEN st
    ELSE IF st[1] = NZero THEN <<NZero, NShl(st[2], 7 * i)>>
    ELSE CHOOSE res \in {div_loop(s, d, i - 1) : s \in {div_step(st, d)}} : TRUE

\* 57 binary digits of the quotient of the significands, and whether a
\* remainder is left.
quotient(a, b) ==
    IF a = FZero THEN FZero
    ELSE CHOOSE f \in {Nearest(a.neg # b.neg, res[2], a.e - b.e - 56, res[1] # NZero) :
                          res \in {div_loop(IF NLess(a.m, b.m) THEN <<a.m, NZero>>
                                            ELSE <<NSub(a.m, b.m), NOne>>, b.m, 8)}} : TRUE

\* a / b for b other than 0.0.
FDiv(a, b) == CHOOSE f \in {quotient(x, y) : x \in {a}, y \in {b}} : TRUE

\* The integer nearest to n / 2^k, a tie going to the even one (0 < k < 60).
nearest_int(n, k) ==
    IF \/ NLess(NShl(NOne, k - 1), NLow(n, k))
       \/ NLow(n, k) = NShl(NOne, k - 1) /\ NShr(n, k)[2] % 2 = 1
    THEN NShr(n, k)[2] + 1
    ELSE NShr(n, k)[2]

rounded(a) ==
    IF a = FZero \/ a.e <= -60 THEN 0
    ELSE IF a.neg THEN -nearest_int(a.m, -a.e)
    ELSE nearest_int(a.m, -a.e)

\* Python's round() of a float a with |a| < 2^30.
round(a) == CHOOSE i \in {rounded(x) : x \in {a}} : TRUE

-----------------------------------------------------------------------------
(* FanController: validation of the configuration parameters *)

\* The exception FanController.__init__ raises for the parameters c before it
\* builds the hwmon paths, or None.
init_error(c) ==
    IF c.ipmi_zone \notin {CPU_ZONE, HD_ZONE} THEN "invalid value: ipmi_zone"
    ELSE IF c.count <= 0 THEN "count <= 0"
    ELSE IF c.temp_calc \notin {CALC_MIN, CALC_AVG, CALC_MAX} THEN "invalid value: temp_calc"
    ELSE IF c.steps <= 0 THEN "steps <= 0"
    ELSE IF c.sensitivity <= 0 THEN "sensitivity <= 0"
    ELSE IF c.polling < 0 THEN "polling < 0"
    ELSE IF c.max_temp < c.min_temp THEN "max_temp < min_temp"
    ELSE IF c.max_level < c.min_level THEN "max_level < min_level"
    ELSE None

\* The parameters FanController.__init__ takes besides log, ipmi and name.
Params(zone, count, calc, steps, sens, poll, tmin, tmax, lmin, lmax) ==
    [ipmi_zone |-> zone, count |-> count, temp_calc |-> calc, steps |-> steps,
     sensitivity |-> sens, polling |-> poll, min_temp |-> tmin, max_temp |-> tmax,
     min_level |-> lmin, max_level |-> lmax]

\* temp_step and level_step as __init__ computes them; the zone keeps them.
temp_step(c) == FDiv(FSub(Float(c.max_temp), Float(c.min_temp)), Float(c.steps))

level_step(c) == FDiv(Float(c.max_level - c.min_level), Float(c.steps))

-----------------------------------------------------------------------------
(* FanController.run, step 3: gain and fan level of a temperature *)

\* int(round((current_temp - self.min_temp) / self.temp_step))
gain_of_temp(self, temp) ==
    round(FDiv(FSub(temp, Float(self.c.min_temp)), self.temp_step))

\* The gain with int(round(float(current_gain) * self.level_step)) + self.min_level
level_of_gain(self, current_gain) ==
    [gain |-> current_gain,
     level |-> round(FMul(Float(current_gain), self.level_step)) + self.c.min_level,
     error |-> FALSE]

\* The mapping with the limits compared strictly.
calc_level_strict(self, temp) ==
    IF FLess(temp, Float(self.c.min_temp))
    THEN [gain |-> 0, level |-> self.c.min_level, error |-> FALSE]
    ELSE IF FLess(Float(self.c.max_temp), temp)
    THEN [gain |-> self.c.steps, level |-> self.c.max_level, error |-> FALSE]
    ELSE IF self.temp_step = FZero
    THEN [gain |-> 0, level |-> 0, error |-> TRUE]
    ELSE CHOOSE res \in {level_of_gain(self, current_gain) :
                            current_gain \in {gain_of_temp(self, temp)}} : TRUE

\* The mapping with the upper limit tested first.
calc_level_max_first(self, temp) ==
    IF FLeq(Float(self.c.max_temp), temp)
    THEN [gain |-> self.c.steps, level |-> self.c.max_level, error |-> FALSE]
    ELSE IF FLeq(temp, Float(self.c.min_temp))
    THEN [gain |-> 0, level |-> self.c.min_level, error |-> FALSE]
    ELSE IF self.temp_step = FZero
    THEN [gain |-> 0, level |-> 0, error |-> TRUE]
    ELSE CHOOSE res \in {level_of_gain(self, current_gain) :
                            current_gain \in {gain_of_temp(self, temp)}} : TRUE

\* The mapping with the lower limit's result at the upper limit.
calc_level_pasted(self, temp) ==
    IF FLeq(temp, Float(self.c.min_temp))
    THEN [gain |-> 0, level |-> self.c.min_level, error |-> FALSE]
    ELSE IF FLeq(Float(self.c.max_temp), temp)
    THEN [gain |-> 0, level |-> self.c.min_level, error |-> FALSE]
    ELSE IF self.temp_step = FZero
    THEN [gain |-> 0, level |-> 0, error |-> TRUE]
    ELSE CHOOSE res \in {level_of_gain(self, current_gain) :
                            current_gain \in {gain_of_temp(self, temp)}} : TRUE

\* The mapping without the upper limit.
calc_level_unclamped(self, temp) ==
    IF FLeq(temp, Float(self.c.min_temp))
    THEN [gain |-> 0, level |-> self.c.min_level, error |-> FALSE]
    ELSE IF self.temp_step = FZero
    THEN [gain |-> 0, level |-> 0, error |-> TRUE]
    ELSE CHOOSE res \in {level_of_gain(self, current_gain) :
                            current_gain \in {gain_of_temp(self, temp)}} : TRUE

\* The gain and the level of the temperature temp in the zone self, which
\* holds temp_step and level_step; error is TRUE where the code raises
\* ZeroDivisionError.
calc_level(self, temp) ==
    IF FLeq(temp, Float(self.c.min_temp))
    THEN [gain |-> 0, level |-> self.c.min_level, error |-> FALSE]
    ELSE IF FLeq(Float(self.c.max_temp), temp)
    THEN [gain |-> self.c.steps, level |-> self.c.max_level, error |-> FALSE]
    ELSE IF self.temp_step = FZero
    THEN [gain |-> 0, level |-> 0, error |-> TRUE]
    ELSE CHOOSE res \in {level_of_gain(self, current_gain) :
                            current_gain \in {gain_of_temp(self, temp)}} : TRUE

-----------------------------------------------------------------------------
(* FanController: reading and aggregating the temperatures *)

\* A hwmon file at the time of a read: [readable, raw], raw the number of
\* millidegrees in it; readable is FALSE where open() or float() raises.
File(raw) == [readable |-> TRUE, raw |-> raw]

Unreadable == [readable |-> FALSE, raw |-> 0]

\* Stands for the value of a call that raised.
NoTemp == FZero

\* float(f.read()) / 1000
read_temp(file) == FDiv(Float(file.raw), Float(MilliDegree))

\* Number of files opened by a loop over files that stops at the first failure.
RECURSIVE opened(_, _)
opened(files, i) ==
    IF i > Len(files) THEN 0
    ELSE IF ~files[i].readable THEN 1
    ELSE 1 + opened(files, i + 1)

Readable(files) == \A i \in 1..Len(files) : files[i].readable

get_1_temp(files) ==
    IF ~files[1].readable
    THEN [error |-> TRUE, value |-> NoTemp, reads |-> 1]
    ELSE [error |-> FALSE, value |-> read_temp(files[1]), reads |-> 1]

RECURSIVE min_loop(_, _, _)
min_loop(files, i, minimum) ==
    IF i > Len(files) THEN minimum
    ELSE \* value = float(f.read()) / 1000; if value < minimum: minimum = value
         CHOOSE res \in {min_loop(files, i + 1, IF FLess(value, minimum) THEN value ELSE minimum) :
                            value \in {read_temp(files[i])}} : TRUE

get_min_temp(files) ==
    IF ~Readable(files)
    THEN [error |-> TRUE, value |-> NoTemp, reads |-> opened(files, 1)]
    ELSE [error |-> FALSE, value |-> min_loop(files, 1, Float(MinimumStart)),
          reads |-> Len(files)]

RECURSIVE avg_loop(_, _, _)
avg_loop(files, i, average) ==
    IF i > Len(files) THEN average
    ELSE \* average += float(f.read()) / 1000
         CHOOSE res \in {avg_loop(files, i + 1, sum) :
                            sum \in {FAdd(average, read_temp(files[i]))}} : TRUE

\* The average of the files that can be read.
get_avg_temp_partial(files) ==
    LET ok == SelectSeq(files, LAMBDA f : f.readable)
    IN  IF ok = <<>>
        THEN [error |-> TRUE, value |-> NoTemp, reads |-> Len(files)]
        ELSE [error |-> FALSE,
              value |-> FDiv(avg_loop(ok, 1, Float(0)), Float(Len(ok))),
              reads |-> Len(files)]

get_avg_temp(files) ==
    IF ~Readable(files)
    THEN [error |-> TRUE, value |-> NoTemp, reads |-> opened(files, 1)]
    ELSE [error |-> FALSE,
          value |-> FDiv(avg_loop(files, 1, Float(0)), Float(Len(files))),
          reads |-> Len(files)]

RECURSIVE max_loop(_, _, _)
max_loop(files, i, maximum) ==
    IF i > Len(files) THEN maximum
    ELSE \* value = float(f.read()) / 1000; if value > maximum: maximum = value
         CHOOSE res \in {max_loop(files, i + 1, IF FLess(maximum, value) THEN value ELSE maximum) :
                            value \in {read_temp(files[i])}} : TRUE

get_max_temp(files) ==
    IF ~Readable(files)
    THEN [error |-> TRUE, value |-> NoTemp, reads |-> opened(files, 1)]
    ELSE [error |-> FALSE, value |-> max_loop(files, 1, Float(MaximumStart)),
          reads |-> Len(files)]

\* The function __init__ stores in get_temp_func, called on the files of one call.
get_temp_func(c, files) ==
    IF c.count = 1 THEN get_1_temp(files)
    ELSE IF c.temp_calc = CALC_MIN THEN get_min_temp(files)
    ELSE IF c.temp_calc = CALC_MAX THEN get_max_temp(files)
    ELSE get_avg_temp(files)

\* The sum of the numbers in the files.
RECURSIVE raw_sum(_, _)
raw_sum(files, i) == IF i > Len(files) THEN 0 ELSE files[i].raw + raw_sum(files, i + 1)

\* The temperature the files hold, in exact arithmetic: the one of the single
\* file, or the least, the mean or the greatest of the files' temperatures.
measured(c, files) ==
    LET raws == {files[i].raw : i \in 1..Len(files)}
    IN  IF c.count = 1 THEN Rat(files[1].raw, MilliDegree)
        ELSE IF c.temp_calc = CALC_MIN
        THEN Rat(CHOOSE r \in raws : \A s \in raws : r <= s, MilliDegree)
        ELSE IF c.temp_calc = CALC_MAX
        THEN Rat(CHOOSE r \in raws : \A s \in raws : s <= r, MilliDegree)
        ELSE Rat(raw_sum(files, 1), MilliDegree * Len(files))

-----------------------------------------------------------------------------
(* Ipmi *)

\* What running ipmitool does: found is FALSE where subprocess.run raises
\* FileNotFoundError; returncode is the exit status of the tool.
Tool(found, returncode) == [found |-> found, returncode |-> returncode]

ToolRuns == {Tool(TRUE, 0), Tool(TRUE, 1), Tool(FALSE, 0)}

\* The [Ipmi] section of the configuration file: the delays, in half seconds
\* (the file gives whole seconds).
IpmiSection(fan_mode_delay, fan_level_delay) ==
    [fan_mode_delay |-> fan_mode_delay, fan_level_delay |-> fan_level_delay]

\* The exception Ipmi.__init__ raises, or None; tool is the run of
\* `ipmitool sdr`.
Ipmi_error(self, tool) ==
    IF ~tool.found THEN "FileNotFoundError"
    ELSE IF self.fan_mode_delay < 0 THEN "Negative fan_mode_delay"
    ELSE IF self.fan_level_delay < 0 THEN "Negative fan_level_delay"
    ELSE None

\* Ipmi.set_fan_mode: error is the exception raised (or None), slept the
\* time spent in time.sleep(fan_mode_delay).
Ipmi_set_fan_mode(self, mode, tool) ==
    IF mode \notin FanModes THEN [error |-> "ValueError", slept |-> 0]
    ELSE IF ~tool.found THEN [error |-> "FileNotFoundError", slept |-> 0]
    ELSE [error |-> None, slept |-> self.fan_mode_delay]

\* Ipmi.set_fan_level: error is the exception raised (or None), sent tells
\* whether the ipmitool command was run, slept is the time spent in
\* time.sleep(fan_level_delay).
Ipmi_set_fan_level(self, zone, level, tool) ==
    IF zone \notin {CPU_ZONE, HD_ZONE} THEN [error |-> "ValueError", sent |-> FALSE, slept |-> 0]
    ELSE IF level \notin 0..(LevelLimit - 1)
    THEN [error |-> "ValueError", sent |-> FALSE, slept |-> 0]
    ELSE IF ~tool.found THEN [error |-> "FileNotFoundError", sent |-> FALSE, slept |-> 0]
    ELSE [error |-> None, sent |-> TRUE, slept |-> self.fan_level_delay]

-----------------------------------------------------------------------------
(* HdZone: the standby guard *)

\* What `smartctl -i -n standby` gives for one disk: its exit status and
\* whether its output contains STANDBY.
Smart(returncode, standby) == [returncode |-> returncode, standby |-> standby]

SmartRuns == {Smart(0, FALSE), Smart(2, TRUE), Smart(1, FALSE)}

\* The loop of check_standby_state from disk i on; q[i] is smartctl's answer
\* for disk i.  queries is the number of smartctl runs.
RECURSIVE check_loop(_, _, _)
check_loop(states, q, i) ==
    IF i > Len(states)
    THEN [states |-> states, error |-> FALSE, queries |-> Len(states)]
    ELSE IF q[i].returncode \notin {0, 2}
    THEN [states |-> [states EXCEPT ![i] = FALSE], error |-> TRUE, queries |-> i]
    ELSE check_loop([states EXCEPT ![i] = q[i].standby], q, i + 1)

Count(states) == Cardinality({i \in 1..Len(states) : states[i]})

check_standby_state(states, q) ==
    LET r == check_loop(states, q, 1)
    IN  [states |-> r.states, error |-> r.error, queries |-> r.queries,
         count |-> Count(r.states)]

\* The loop going on to the next disk after a failed write, the exception
\* raised after the last disk.
RECURSIVE go_loop_deferred(_, _, _, _)
go_loop_deferred(states, rc, i, writes) ==
    IF i > Len(states)
    THEN [states |-> states,
          error |-> \E k \in 1..Len(writes) : rc[writes[k]] # 0,
          writes |-> writes]
    ELSE IF ~states[i]
    THEN go_loop_deferred(IF rc[i] # 0 THEN states ELSE [states EXCEPT ![i] = TRUE],
                          rc, i + 1, Append(writes, i))
    ELSE go_loop_deferred(states, rc, i + 1, writes)

\* The loop of go_standby_state from disk i on; rc[i] is the exit status of
\* `smartctl -s standby,now` for disk i.  writes lists the disks written to.
RECURSIVE go_loop(_, _, _, _)
go_loop(states, rc, i, writes) ==
    IF i > Len(states)
    THEN [states |-> states, error |-> FALSE, writes |-> writes]
    ELSE IF ~states[i]
    THEN IF rc[i] # 0
         THEN [states |-> states, error |-> TRUE, writes |-> Append(writes, i)]
         ELSE go_loop([states EXCEPT ![i] = TRUE], rc, i + 1, Append(writes, i))
    ELSE go_loop(states, rc, i + 1, writes)

\* go_standby_state without the test of the disk's state.
go_standby_state_all(states, rc) ==
    go_loop([i \in 1..Len(states) |-> FALSE], rc, 1, <<>>)

go_standby_state(states, rc) == go_loop(states, rc, 1, <<>>)

\* The guard with the flag set before the disks are put to standby.
run_standby_guard_flag_first(z, q, rc, cur_time) ==
    LET chk == check_standby_state(z.standby_array_states, q)
        z1 == [z EXCEPT !.standby_array_states = chk.states]
    IN  IF chk.error
        THEN [z |-> z1, error |-> "smartctl query", queries |-> chk.queries, reported |-> chk.states,
              writes |-> <<>>]
        ELSE IF ~z.standby_flag /\ chk.count >= z.standby_hd_limit
        THEN LET go == go_standby_state(chk.states, rc)
                 z2 == [z EXCEPT !.standby_array_states = go.states,
                                 !.standby_flag = TRUE,
                                 !.standby_change_timestamp = cur_time]
             IN  [z |-> z2,
                  error |-> IF go.error THEN "smartctl standby" ELSE None,
                  queries |-> chk.queries, reported |-> chk.states, writes |-> go.writes]
        ELSE IF z.standby_flag /\ chk.count < z.c.count
        THEN [z |-> [z1 EXCEPT !.standby_flag = FALSE,
                               !.standby_change_timestamp = cur_time],
              error |-> None, queries |-> chk.queries, reported |-> chk.states, writes |-> <<>>]
        ELSE [z |-> z1, error |-> None, queries |-> chk.queries, reported |-> chk.states, writes |-> <<>>]

\* The guard with a wake-up that keeps the timestamp.
run_standby_guard_stale_stamp(z, q, rc, cur_time) ==
    LET chk == check_standby_state(z.standby_array_states, q)
        z1 == [z EXCEPT !.standby_array_states = chk.states]
    IN  IF chk.error
        THEN [z |-> z1, error |-> "smartctl query", queries |-> chk.queries, reported |-> chk.states,
              writes |-> <<>>]
        ELSE IF ~z.standby_flag /\ chk.count >= z.standby_hd_limit
        THEN LET go == go_standby_state(chk.states, rc)
                 z2 == [z EXCEPT !.standby_array_states = go.states]
             IN  IF go.error
                 THEN [z |-> z2, error |-> "smartctl standby", queries |-> chk.queries, reported |-> chk.states,
                       writes |-> go.writes]
                 ELSE [z |-> [z2 EXCEPT !.standby_flag = TRUE,
                                        !.standby_change_timestamp = cur_time],
                       error |-> None, queries |-> chk.queries, reported |-> chk.states, writes |-> go.writes]
        ELSE IF z.standby_flag /\ chk.count < z.c.count
        THEN [z |-> [z1 EXCEPT !.standby_flag = FALSE],
              error |-> None, queries |-> chk.queries, reported |-> chk.states, writes |-> <<>>]
        ELSE [z |-> z1, error |-> None, queries |-> chk.queries, reported |-> chk.states, writes |-> <<>>]

\* The guard going to standby only above the limit.
run_standby_guard_strict_limit(z, q, rc, cur_time) ==
    LET chk == check_standby_state(z.standby_array_states, q)
        z1 == [z EXCEPT !.standby_array_states = chk.states]
    IN  IF chk.error
        THEN [z |-> z1, error |-> "smartctl query", queries |-> chk.queries, reported |-> chk.states,
              writes |-> <<>>]
        ELSE IF ~z.standby_flag /\ chk.count > z.standby_hd_limit
        THEN LET go == go_standby_state(chk.states, rc)
                 z2 == [z EXCEPT !.standby_array_states = go.states]
             IN  IF go.error
                 THEN [z |-> z2, error |-> "smartctl standby", queries |-> chk.queries, reported |-> chk.states,
                       writes |-> go.writes]
                 ELSE [z |-> [z2 EXCEPT !.standby_flag = TRUE,
                                        !.standby_change_timestamp = cur_time],
                       error |-> None, queries |-> chk.queries, reported |-> chk.states, writes |-> go.writes]
        ELSE IF z.standby_flag /\ chk.count < z.c.count
        THEN [z |-> [z1 EXCEPT !.standby_flag = FALSE,
                               !.standby_change_timestamp = cur_time],
              error |-> None, queries |-> chk.queries, reported |-> chk.states, writes |-> <<>>]
        ELSE [z |-> z1, error |-> None, queries |-> chk.queries, reported |-> chk.states, writes |-> <<>>]

\* The guard waking up also when every disk is in standby.
run_standby_guard_wake_always(z, q, rc, cur_time) ==
    LET chk == check_standby_state(z.standby_array_states, q)
        z1 == [z EXCEPT !.standby_array_states = chk.states]
    IN  IF chk.error
        THEN [z |-> z1, error |-> "smartctl query", queries |-> chk.queries, reported |-> chk.states,
              writes |-> <<>>]
        ELSE IF ~z.standby_flag /\ chk.count >= z.standby_hd_limit
        THEN LET go == go_standby_state(chk.states, rc)
                 z2 == [z EXCEPT !.standby_array_states = go.states]
             IN  IF go.error
                 THEN [z |-> z2, error |-> "smartctl standby", queries |-> chk.queries, reported |-> chk.states,
                       writes |-> go.writes]
                 ELSE [z |-> [z2 EXCEPT !.standby_flag = TRUE,
                                        !.standby_change_timestamp = cur_time],
                       error |-> None, queries |-> chk.queries, reported |-> chk.states, writes |-> go.writes]
        ELSE IF z.standby_flag /\ chk.count <= z.c.count
        THEN [z |-> [z1 EXCEPT !.standby_flag = FALSE,
                               !.standby_change_timestamp = cur_time],
              error |-> None, queries |-> chk.queries, reported |-> chk.states, writes |-> <<>>]
        ELSE [z |-> z1, error |-> None, queries |-> chk.queries, reported |-> chk.states, writes |-> <<>>]

\* The guard waking up only below the limit.
run_standby_guard_wake_below_limit(z, q, rc, cur_time) ==
    LET chk == check_standby_state(z.standby_array_states, q)
        z1 == [z EXCEPT !.standby_array_states = chk.states]
    IN  IF chk.error
        THEN [z |-> z1, error |-> "smartctl query", queries |-> chk.queries, reported |-> chk.states,
              writes |-> <<>>]
        ELSE IF ~z.standby_flag /\ chk.count >= z.standby_hd_limit
        THEN LET go == go_standby_state(chk.states, rc)
                 z2 == [z EXCEPT !.standby_array_states = go.states]
             IN  IF go.error
                 THEN [z |-> z2, error |-> "smartctl standby", queries |-> chk.queries, reported |-> chk.states,
                       writes |-> go.writes]
                 ELSE [z |-> [z2 EXCEPT !.standby_flag = TRUE,
                                        !.standby_change_timestamp = cur_time],
                       error |-> None, queries |-> chk.queries, reported |-> chk.states, writes |-> go.writes]
        ELSE IF z.standby_flag /\ chk.count < z.standby_hd_limit
        THEN [z |-> [z1 EXCEPT !.standby_flag = FALSE,
                               !.standby_change_timestamp = cur_time],
              error |-> None, queries |-> chk.queries, reported |-> chk.states, writes |-> <<>>]
        ELSE [z |-> z1, error |-> None, queries |-> chk.queries, reported |-> chk.states, writes |-> <<>>]

\* run_standby_guard on the zone z at time cur_time.
run_standby_guard(z, q, rc, cur_time) ==
    LET chk == check_standby_state(z.standby_array_states, q)
        z1 == [z EXCEPT !.standby_array_states = chk.states]
    IN  IF chk.error
        THEN [z |-> z1, error |-> "smartctl query", queries |-> chk.queries, reported |-> chk.states,
              writes |-> <<>>]
        ELSE IF ~z.standby_flag /\ chk.count >= z.standby_hd_limit
        THEN LET go == go_standby_state(chk.states, rc)
                 z2 == [z EXCEPT !.standby_array_states = go.states]
             IN  IF go.error
                 THEN [z |-> z2, error |-> "smartctl standby", queries |-> chk.queries, reported |-> chk.states,
                       writes |-> go.writes]
                 ELSE [z |-> [z2 EXCEPT !.standby_flag = TRUE,
                                        !.standby_change_timestamp = cur_time],
                       error |-> None, queries |-> chk.queries, reported |-> chk.states, writes |-> go.writes]
        ELSE IF z.standby_flag /\ chk.count < z.c.count
        THEN [z |-> [z1 EXCEPT !.standby_flag = FALSE,
                               !.standby_change_timestamp = cur_time],
              error |-> None, queries |-> chk.queries, reported |-> chk.states, writes |-> <<>>]
        ELSE [z |-> z1, error |-> None, queries |-> chk.queries, reported |-> chk.states, writes |-> <<>>]

callback_func_none(z, q, rc, cur_time) ==
    [z |-> z, error |-> None, queries |-> 0, reported |-> <<>>, writes |-> <<>>]

\* callback_func of the zone's class: HdZone's runs the guard when it is
\* enabled, FanController's (kept by CpuZone) does nothing.
callback_func(z, q, rc, cur_time) ==
    IF z.c.ipmi_zone = HD_ZONE /\ z.standby_guard_enabled
    THEN run_standby_guard(z, q, rc, cur_time)
    ELSE [z |-> z, error |-> None, queries |-> 0, reported |-> <<>>, writes |-> <<>>]

-----------------------------------------------------------------------------
(* The configurations and the files of the model *)

\* The [CPU zone] and [HD zone] sections of the configuration file.
CpuSection(c, hwmon) == [c |-> c, hwmon |-> hwmon]

HdSection(c, hwmon, names, guard, limit) ==
    [c |-> c, hwmon |-> hwmon, hd_names |-> names, standby_guard_enabled |-> guard,
     standby_hd_limit |-> limit]

CpuSections ==
    {CpuSection(Params(CPU_ZONE, 1, CALC_AVG, 6, 3, 1, 30, 60, 35, 100), 1)}

HdSections ==
    {HdSection(Params(HD_ZONE, 2, CALC_AVG, 4, 2, 2, 32, 46, 35, 100), 2, 2, TRUE, 1)}

\* The delays of the [Ipmi] section: none, or one second after each request.
NoDelay == IpmiSection(0, 0)

IpmiSections == {NoDelay, IpmiSection(2, 2)}

\* [Ipmi] sections with a negative delay.
BadIpmiSections == {IpmiSection(-2, 0), IpmiSection(0, -2)}

\* The section h with the standby guard switched off.
Unguarded(h) == [h EXCEPT !.standby_guard_enabled = FALSE]

\* Both zones (the HD zone without the standby guard) or none without delays,
\* and either zone with and without them.
Configs ==
    {[cpu_enabled |-> TRUE, hd_enabled |-> TRUE, cpu |-> k, hd |-> Unguarded(h),
      ipmi |-> NoDelay] : k \in CpuSections, h \in HdSections}
    \cup {[cpu_enabled |-> FALSE, hd_enabled |-> FALSE, cpu |-> k, hd |-> h,
           ipmi |-> NoDelay] : k \in CpuSections, h \in HdSections}
    \cup {[cpu_enabled |-> ce, hd_enabled |-> ~ce, cpu |-> k, hd |-> h, ipmi |-> d] :
        ce \in BOOLEAN, k \in CpuSections, h \in HdSections, d \in IpmiSections}

\* Configurations with one zone enabled, over which the constructors and the
\* standby guard are examined: the parameters below and, for each check of the
\* constructors, parameters that fail it.
MaxDisks == 3

ZoneParams(zone, n) == Params(zone, n, CALC_AVG, 4, 2, 1, 32, 46, 35, 100)

BadParams(zone, n) ==
    {Params(zone, 0, CALC_AVG, 4, 2, 1, 32, 46, 35, 100),
     Params(zone, n, 3, 4, 2, 1, 32, 46, 35, 100),
     Params(zone, n, CALC_AVG, 0, 2, 1, 32, 46, 35, 100),
     Params(zone, n, CALC_AVG, 4, 0, 1, 32, 46, 35, 100),
     Params(zone, n, CALC_AVG, 4, 2, -1, 32, 46, 35, 100),
     Params(zone, n, CALC_AVG, 4, 2, 1, 46, 32, 35, 100),
     Params(zone, n, CALC_AVG, 4, 2, 1, 32, 46, 100, 35)}

\* Parameters at the edges of what the constructor's checks let through: a
\* polling time of 0, a minimum fan level of 0, and fan levels below 0 and
\* above 100.
EdgeParams(zone, n) ==
    {Params(zone, n, CALC_AVG, 4, 2, 0, 32, 46, 35, 100),
     Params(zone, n, CALC_AVG, 4, 2, 1, 32, 46, 0, 100),
     Params(zone, n, CALC_AVG, 4, 2, 1, 32, 46, -5, 100),
     Params(zone, n, CALC_AVG, 4, 2, 1, 32, 46, 35, 150)}

CpuConfSections ==
    {CpuSection(c, hwmon) : c \in BadParams(CPU_ZONE, 1) \cup {ZoneParams(CPU_ZONE, 1)},
                            hwmon \in 0..2}
    \cup {CpuSection(c, 1) : c \in EdgeParams(CPU_ZONE, 1)}

\* The standby guard of one disk and of MaxDisks disks, with every limit from
\* -1 to one more than the disks.
GuardSections ==
    {HdSection(ZoneParams(HD_ZONE, n), n, n, TRUE, limit) :
        n \in {1, MaxDisks}, limit \in -1..(MaxDisks + 1)}

HdConfSections ==
    {h \in GuardSections : h.standby_hd_limit <= h.c.count + 1}
    \cup {HdSection(ZoneParams(HD_ZONE, MaxDisks), MaxDisks, MaxDisks, FALSE, 1)}
    \cup {HdSection(ZoneParams(HD_ZONE, 2), 0, 2, FALSE, 1)}
    \cup {HdSection(c, hwmon, names, TRUE, 1) :
              c \in BadParams(HD_ZONE, MaxDisks) \cup {ZoneParams(HD_ZONE, MaxDisks)},
              hwmon \in {MaxDisks, MaxDisks + 1}, names \in {0, MaxDisks, MaxDisks + 1}}

\* The sections above without delays, a zone of each kind with them, and the
\* [Ipmi] sections that Ipmi.__init__ refuses.
ZoneConfigs ==
    {[cpu_enabled |-> TRUE, hd_enabled |-> FALSE, cpu |-> k, hd |-> h, ipmi |-> NoDelay] :
        k \in CpuConfSections, h \in HdSections}
    \cup {[cpu_enabled |-> FALSE, hd_enabled |-> TRUE, cpu |-> k, hd |-> h, ipmi |-> NoDelay] :
        k \in CpuSections, h \in HdConfSections}
    \cup {[cpu_enabled |-> TRUE, hd_enabled |-> FALSE, cpu |-> k, hd |-> h, ipmi |-> d] :
        k \in {CpuSection(ZoneParams(CPU_ZONE, 1), 1)}, h \in HdSections,
        d \in IpmiSections \cup BadIpmiSections}
    \cup {[cpu_enabled |-> FALSE, hd_enabled |-> TRUE, cpu |-> k, hd |-> h, ipmi |-> d] :
        k \in CpuSections,
        h \in {HdSection(ZoneParams(HD_ZONE, MaxDisks), MaxDisks, MaxDisks, TRUE, 1)},
        d \in IpmiSections}

\* Configurations over which the timing of the main loop is examined: either
\* zone or both, the CPU zone polling every 0, 1 or 3 seconds and a one-disk
\* HD zone every 1, 2 or 4 seconds.
TimedConfigs ==
    {[cpu_enabled |-> ce, hd_enabled |-> he,
      cpu |-> CpuSection(Params(CPU_ZONE, 1, CALC_AVG, 4, 2, pc_, 32, 46, 35, 100), 1),
      hd |-> HdSection(Params(HD_ZONE, 1, CALC_AVG, 4, 2, ph, 32, 46, 35, 100),
                       1, 1, FALSE, 1),
      ipmi |-> d] :
        ce \in BOOLEAN, he \in BOOLEAN, pc_ \in {0, 1, 3}, ph \in {1, 2, 4},
        d \in IpmiSections}

\* The files the zones read, as they can be at the time of a read.
CpuFiles ==
    {File(2000), File(29000), File(30001), File(32001), File(41000), File(43000),
     Unreadable}

HdFiles == {File(30000), File(40000), Unreadable}

\* With more than two sensors every sensor's file holds 40000.
ZoneFiles(z) ==
    IF z.c.count > 2 THEN {File(40000)}
    ELSE IF z.c.ipmi_zone = CPU_ZONE THEN CpuFiles
    ELSE HdFiles

\* Configurations over which the loop is followed without end: either zone
\* or both, each with MaxDisks sensors, the CPU zone polling every 0 or 1
\* seconds and the HD zone, without the guard, every 2.
LiveConfigs ==
    {[cpu_enabled |-> ce, hd_enabled |-> he,
      cpu |-> CpuSection(Params(CPU_ZONE, MaxDisks, CALC_AVG, 4, 2, pc_, 32, 46, 35, 100),
                         MaxDisks),
      hd |-> HdSection(Params(HD_ZONE, MaxDisks, CALC_AVG, 4, 2, 2, 32, 46, 35, 100),
                       MaxDisks, MaxDisks, FALSE, 1),
      ipmi |-> d] :
        ce \in BOOLEAN, he \in BOOLEAN, pc_ \in {0, 1}, d \in IpmiSections}

-----------------------------------------------------------------------------
(* FanController.run *)

\* What one call of run() did, kept for the properties: the zone before the
\* call, the files and tools as they were, the smartctl runs, the files
\* opened, the temperature, the gain and level computed, the levels passed to
\* set_fan_level, the exit status of ipmitool where it was run, and the
\* exception that ended the call (or None).  reported holds the per-disk
\* states after the guard's query; wake holds the states the disks reported at
\* the latest wake-up of the array when the guard has not put the array to
\* standby since (<<>> otherwise), as it was when the call began.  time is the
\* clock read at the start of the call, cur_time the clock when callback_func
\* is through with the queries of the disks, end the clock when the call
\* returns; late is the time that the calls of run() of the iteration have
\* taken so far, their sleeps apart.  exact is the temperature that the files
\* of the call hold, in exact arithmetic; held is, for each zone, the
\* temperature the files held at the call that accepted the zone's last_temp
\* (0 before any), and had the one of the called zone when the call began.
NoTick ==
    [name |-> "", time |-> 0, cur_time |-> 0, end |-> 0, late |-> 0, passed |-> FALSE, queries |-> 0, reported |-> <<>>,
     standby_writes |-> <<>>, wake |-> <<>>,
     files |-> <<>>, reads |-> 0, sampled |-> FALSE, temp |-> NoTemp, accepted |-> FALSE,
     exact |-> IntRat(0), had |-> IntRat(0),
     held |-> [name \in {"CPU zone", "HD zone"} |-> IntRat(0)],
     gain |-> 0, level |-> 0, fan_calls |-> <<>>, fan_sent |-> FALSE, returncode |-> 0,
     error |-> None,
     before |-> [last_time |-> 0, last_temp |-> NoTemp, last_level |-> 0]]

\* The paths of zone z that are set (all of them in a CPU zone).
hwmon_path(z) ==
    IF "hwmon_path" \in DOMAIN z THEN z.hwmon_path ELSE [i \in 1..z.c.count |-> TRUE]

\* The files as zone z opens them: the open of an empty path fails.
at_paths(z, files) ==
    [i \in 1..Len(files) |-> IF hwmon_path(z)[i] THEN files[i] ELSE Unreadable]

\* Step 1: the elapsed time is shorter than the polling time (polling is in
\* seconds, the clock in half seconds).
too_early_half(z, current_time) == current_time - z.last_time < z.c.polling

too_early(z, current_time) == current_time - z.last_time < 2 * z.c.polling

\* Step 2: the change of the temperature stays below the sensitivity.
\* The test against half the sensitivity.
within_sensitivity_halved(z, current_temp) ==
    FLess(FMul(Float(2), FAbs(FSub(current_temp, z.last_temp))), Float(z.c.sensitivity))

\* abs(current_temp - self.last_temp) < self.sensitivity
within_sensitivity(z, current_temp) ==
    FLess(FAbs(FSub(current_temp, z.last_temp)), Float(z.c.sensitivity))

\* Step 4: the new fan level is different.
level_differs_upwards(z, current_level) == current_level > z.last_level

level_differs(z, current_level) == current_level # z.last_level

\* The parameters of the zones that the configurations of the model build.
BuiltParams ==
    {c \in UNION {{k.cpu.c, k.hd.c} :
                     k \in Configs \cup ZoneConfigs \cup TimedConfigs \cup LiveConfigs} :
        init_error(c) = None}

\* The function f with its values listed: they are computed where f is
\* defined and looked up where f is applied.
Listed(f) == f @@ <<>>

\* What the reads, the test of the sensitivity and the mapping of a call of
\* run() give depends on the zone's parameters, its last_temp and the files
\* only.  get_temp_func, within_sensitivity and calc_level are evaluated here,
\* once for each zone of the configurations, and run() looks the values up:
\* temps[c][files] is self.get_temp_func() in a zone with the parameters c when
\* the files are as in files.
temps ==
    Listed([c \in BuiltParams |->
        Listed([files \in [1..c.count -> ZoneFiles([c |-> c]) \cup {Unreadable}] |->
            get_temp_func(c, files)])])

\* The values of the function f.
Range(f) == {f[x] : x \in DOMAIN f}

\* The temperatures such a zone can read, and the 0 its last_temp starts with.
ZoneTemps(c) == {r.value : r \in Range(temps[c])} \cup {Float(0)}

\* The test of step 2 in a zone with the parameters c, for the values of
\* last_temp and of the temperature read in T.
within_of(c, T) ==
    Listed([last_temp \in T |->
        Listed([current_temp \in T |->
            within_sensitivity([c |-> c, last_temp |-> last_temp], current_temp)])])

\* within[c][last_temp][current_temp] is the test of step 2 in such a zone.
within == Listed([c \in BuiltParams |-> within_of(c, ZoneTemps(c))])

\* levels[c][temp] is the gain and the level of step 3 in such a zone, which
\* holds the temp_step and the level_step of its parameters.
levels ==
    Listed([c \in BuiltParams |->
        Listed([temp \in ZoneTemps(c) |->
            calc_level([c |-> c, temp_step |-> temp_step(c),
                        level_step |-> level_step(c)], temp)])])

\* run() with last_time assigned after the temperature is read.
run_stamp_late(z, current_time, in) ==
    LET t0 == [NoTick EXCEPT !.name = z.name, !.time = current_time,
                             !.cur_time = current_time, !.end = current_time, !.before = z]
    IN  IF too_early(z, current_time) THEN [z |-> z, tick |-> t0]
        ELSE
        LET cur_time == current_time + in.took
            cb == callback_func(z, in.q, in.rc, cur_time)
            t1 == [t0 EXCEPT !.passed = TRUE, !.queries = cb.queries,
                             !.cur_time = cur_time, !.end = cur_time, !.late = in.took,
                             !.reported = cb.reported, !.standby_writes = cb.writes]
        IN  IF cb.error # None THEN [z |-> cb.z, tick |-> [t1 EXCEPT !.error = cb.error]]
            ELSE
            CHOOSE read \in {
                LET t2 == [t1 EXCEPT !.files = at_paths(z, in.files), !.reads = r.reads,
                                     !.end = cur_time + in.spent,
                                     !.late = in.took + in.spent]
                IN  IF r.error THEN [z |-> cb.z, tick |-> [t2 EXCEPT !.error = "IOError"]]
                    ELSE
                    LET z1 == [cb.z EXCEPT !.last_time = current_time]
                        t3 == [t2 EXCEPT !.sampled = TRUE, !.temp = r.value,
                                         !.exact = measured(z.c, at_paths(z, in.files))]
                    IN  IF within[z.c][z1.last_temp][r.value] THEN [z |-> z1, tick |-> t3]
                        ELSE
                        CHOOSE mapped \in {
                            LET z2 == [z1 EXCEPT !.last_temp = r.value]
                                t4 == [t3 EXCEPT !.accepted = TRUE, !.gain = lv.gain,
                                                 !.level = lv.level]
                            IN  IF lv.error
                                THEN [z |-> z2,
                                      tick |-> [t4 EXCEPT !.error = "ZeroDivisionError"]]
                                ELSE IF level_differs(z2, lv.level)
                                THEN LET w == Ipmi_set_fan_level(conf.ipmi, z.c.ipmi_zone,
                                                                 lv.level, in.tool)
                                     IN  [z |-> [z2 EXCEPT !.last_level = lv.level],
                                          tick |-> [t4 EXCEPT
                                                       !.fan_calls =
                                                           <<<<z.c.ipmi_zone, lv.level>>>>,
                                                       !.fan_sent = w.sent,
                                                       !.end = @ + w.slept,
                                                       !.returncode =
                                                           IF w.sent THEN in.tool.returncode
                                                           ELSE 0,
                                                       !.error = w.error]]
                                ELSE [z |-> z2, tick |-> t4]
                            : lv \in {levels[z.c][r.value]}} : TRUE
                : r \in {temps[z.c][at_paths(z, in.files)]}} : TRUE

\* run() on zone z at current_time; in gives what the outside world answers
\* during the call: in.q and in.rc to smartctl, in.files to the reads of the
\* hwmon files, in.tool to ipmitool; in.took is the time that passes from the
\* clock read of run() to the one of run_standby_guard (the runs of smartctl
\* that query the disks), in.spent the time the rest of the call takes (the
\* reads of the files, the run of ipmitool), the sleep after it apart.  The
\* call returns at tick.end.  r is what self.get_temp_func() returns and lv
\* what step 3 computes from it.
run(z, current_time, in) ==
    LET t0 == [NoTick EXCEPT !.name = z.name, !.time = current_time,
                             !.cur_time = current_time, !.end = current_time, !.before = z]
    IN  IF too_early(z, current_time) THEN [z |-> z, tick |-> t0]
        ELSE
        LET z1 == [z EXCEPT !.last_time = current_time]
            cur_time == current_time + in.took
            cb == callback_func(z1, in.q, in.rc, cur_time)
            t1 == [t0 EXCEPT !.passed = TRUE, !.queries = cb.queries,
                             !.cur_time = cur_time, !.end = cur_time, !.late = in.took,
                             !.reported = cb.reported, !.standby_writes = cb.writes]
        IN  IF cb.error # None THEN [z |-> cb.z, tick |-> [t1 EXCEPT !.error = cb.error]]
            ELSE
            CHOOSE read \in {
                LET t2 == [t1 EXCEPT !.files = at_paths(z, in.files), !.reads = r.reads,
                                     !.end = cur_time + in.spent,
                                     !.late = in.took + in.spent]
                IN  IF r.error THEN [z |-> cb.z, tick |-> [t2 EXCEPT !.error = "IOError"]]
                    ELSE
                    LET t3 == [t2 EXCEPT !.sampled = TRUE, !.temp = r.value,
                                         !.exact = measured(z.c, at_paths(z, in.files))]
                    IN  IF within[z.c][cb.z.last_temp][r.value] THEN [z |-> cb.z, tick |-> t3]
                        ELSE
                        CHOOSE mapped \in {
                            LET z2 == [cb.z EXCEPT !.last_temp = r.value]
                                t4 == [t3 EXCEPT !.accepted = TRUE, !.gain = lv.gain,
                                                 !.level = lv.level]
                            IN  IF lv.error
                                THEN [z |-> z2,
                                      tick |-> [t4 EXCEPT !.error = "ZeroDivisionError"]]
                                ELSE IF level_differs(z2, lv.level)
                                THEN LET w == Ipmi_set_fan_level(conf.ipmi, z.c.ipmi_zone,
                                                                 lv.level, in.tool)
                                     IN  [z |-> [z2 EXCEPT !.last_level = lv.level],
                                          tick |-> [t4 EXCEPT
                                                       !.fan_calls =
                                                           <<<<z.c.ipmi_zone, lv.level>>>>,
                                                       !.fan_sent = w.sent,
                                                       !.end = @ + w.slept,
                                                       !.returncode =
                                                           IF w.sent THEN in.tool.returncode
                                                           ELSE 0,
                                                       !.error = w.error]]
                                ELSE [z |-> z2, tick |-> t4]
                            : lv \in {levels[z.c][r.value]}} : TRUE
                : r \in {temps[z.c][at_paths(z, in.files)]}} : TRUE

-----------------------------------------------------------------------------
(* Construction of the zones *)

\* FanController.__init__ from its check of the hwmon paths on: hwmon is the
\* number of paths in the hwmon_path= item (0: the item is absent and the paths
\* are searched for), found tells whether all the paths are found in the file
\* system, readable whether the first read of the temperature succeeds.
\* (first without the check of the number of paths)
path_error_unchecked(c, hwmon, found, readable) ==
    IF ~found THEN "Cannot read file"
    ELSE IF hwmon > 0 /\ ~readable THEN "IOError"
    ELSE None

path_error(c, hwmon, found, readable) ==
    IF hwmon > 0 /\ hwmon # c.count THEN "Inconsistent count"
    ELSE IF ~found THEN "Cannot read file"
    ELSE IF hwmon > 0 /\ ~readable THEN "IOError"
    ELSE None

FanController_just_polled(name, c, t) ==
    [made |-> TRUE, name |-> name, c |-> c,
     temp_step |-> temp_step(c), level_step |-> level_step(c),
     last_temp |-> Float(0), last_level |-> 0, last_time |-> t]

\* The attributes of a FanController after __init__ at time t.
FanController(name, c, t) ==
    [made |-> TRUE, name |-> name, c |-> c,
     temp_step |-> temp_step(c), level_step |-> level_step(c),
     last_temp |-> Float(0), last_level |-> 0, last_time |-> t - 2 * (c.polling + 1)]

NoCpuZone ==
    [made |-> FALSE, name |-> "CPU zone", c |-> Params(CPU_ZONE, 0, 0, 0, 0, 0, 0, 0, 0, 0),
     temp_step |-> FZero, level_step |-> FZero,
     last_temp |-> Float(0), last_level |-> 0, last_time |-> 0]

\* The exception CpuZone.__init__ raises, or None.
CpuZone_error(k, found, readable) ==
    IF k.c.count <= 0 THEN "count <= 0"
    ELSE IF init_error(k.c) # None THEN init_error(k.c)
    ELSE path_error(k.c, k.hwmon, found, readable)

CpuZone(k, t) == FanController("CPU zone", k.c, t)

NoHdZone ==
    [made |-> FALSE, name |-> "HD zone", c |-> Params(HD_ZONE, 0, 0, 0, 0, 0, 0, 0, 0, 0),
     temp_step |-> FZero, level_step |-> FZero,
     last_temp |-> Float(0), last_level |-> 0, last_time |-> 0, hwmon_path |-> <<>>,
     standby_guard_enabled |-> FALSE, standby_hd_limit |-> 0, standby_flag |-> FALSE,
     standby_change_timestamp |-> 0, standby_array_states |-> <<>>]

guard_enabled_as_configured(k) == k.standby_guard_enabled

\* standby_guard_enabled after the check of count.
guard_enabled(k) == IF k.c.count = 1 THEN FALSE ELSE k.standby_guard_enabled

\* What HdZone.build_hwmon_path finds when the section has no hwmon_path=
\* item: links tells whether every name of hd_names= is a link in
\* /dev/disk/by-id, globs whether the files searched for under each entry of
\* /sys/class/scsi_disk are found, listed[i] whether disk i has an entry there.
HdSearch(links, globs, listed) == [links |-> links, globs |-> globs, listed |-> listed]

\* HdZone.build_hwmon_path and the first read of the temperature: with the
\* hwmon_path= item as in FanController, without it by the search, which goes
\* past a disk that has no entry and leaves its path empty.
hd_path_error(k, found, readable, search) ==
    IF k.hwmon > 0 THEN path_error(k.c, k.hwmon, found, readable)
    ELSE IF ~search.links THEN "Invalid hd_names"
    ELSE IF ~search.globs THEN "Cannot read file"
    ELSE None

\* hwmon_path after HdZone.build_hwmon_path: TRUE where the path of the
\* disk's file is set, FALSE where it is left empty.
hd_hwmon_path(k, search) ==
    [i \in 1..k.c.count |-> k.hwmon > 0 \/ search.listed[i]]

\* The exception HdZone.__init__ raises, or None; q is smartctl's answer for
\* each disk at that time.
HdZone_error(k, found, readable, search, q) ==
    IF k.c.count <= 0 THEN "count <= 0"
    ELSE IF k.hd_names = 0 THEN "Parameter hd_names= is not specified."
    ELSE IF k.hd_names # k.c.count THEN "Inconsistent count and size of hd_names"
    ELSE IF init_error(k.c) # None THEN init_error(k.c)
    ELSE IF hd_path_error(k, found, readable, search) # None
    THEN hd_path_error(k, found, readable, search)
    ELSE IF ~guard_enabled(k) THEN None
    ELSE IF k.standby_hd_limit < 0 THEN "standby_hd_limit < 0"
    ELSE IF k.standby_hd_limit > k.c.count THEN "standby_hd_limit > count"
    ELSE IF check_standby_state([i \in 1..k.c.count |-> FALSE], q).error
    THEN "smartctl query"
    ELSE None

\* The number of smartctl runs HdZone.__init__ makes.
HdZone_queries(k, found, readable, search, q) ==
    IF HdZone_error(k, found, readable, search, q) \notin {None, "smartctl query"} THEN 0
    ELSE IF ~guard_enabled(k) THEN 0
    ELSE check_standby_state([i \in 1..k.c.count |-> FALSE], q).queries

\* The attributes of an HdZone after __init__: t is the clock read by
\* FanController.__init__, cur_time the one read after the disks are queried;
\* hwmon_path tells which paths are set.
HdZone(k, t, search, q, cur_time) ==
    LET f == FanController("HD zone", k.c, t)
        base == [made |-> TRUE, name |-> f.name, c |-> f.c,
                 temp_step |-> f.temp_step, level_step |-> f.level_step,
                 last_temp |-> f.last_temp,
                 last_level |-> f.last_level, last_time |-> f.last_time,
                 hwmon_path |-> hd_hwmon_path(k, search),
                 standby_guard_enabled |-> guard_enabled(k),
                 standby_hd_limit |-> 0, standby_flag |-> FALSE,
                 standby_change_timestamp |-> 0, standby_array_states |-> <<>>]
    IN  IF ~guard_enabled(k) THEN base
        ELSE LET chk == check_standby_state([i \in 1..k.c.count |-> FALSE], q)
             IN  [base EXCEPT !.standby_hd_limit = k.standby_hd_limit,
                              !.standby_array_states = chk.states,
                              !.standby_change_timestamp = cur_time,
                              !.standby_flag = (chk.count = k.c.count)]

-----------------------------------------------------------------------------
(* The mapping and the aggregation on their own *)

\* The Ipmi instance before any request; levels holds, for each zone, the
\* level of the latest `ipmitool raw 0x30 0x70 0x66 0x01 zone level` that was
\* run, and -1 while none was.
NoIpmi ==
    [old_mode |-> 0, set_modes |-> <<>>, levels |-> [z \in {CPU_ZONE, HD_ZONE} |-> -1]]

\* The Ipmi instance after the call of run() recorded in t.
Sent(t) ==
    IF t.fan_sent
    THEN [ipmi EXCEPT !.levels[t.fan_calls[1][1]] = t.fan_calls[1][2]]
    ELSE ipmi

CurveTempRanges == {<<30, 60>>, <<30, 30>>, <<32, 46>>}

CurveLevelRanges == {<<35, 100>>, <<0, 100>>, <<50, 50>>}

\* Parameters the constructor accepts, over which the mapping is examined.
CurveParams ==
    {c \in {Params(CPU_ZONE, 1, CALC_AVG, s, 3, 2, t[1], t[2], l[1], l[2]) :
                s \in 1..MaxSteps, t \in CurveTempRanges, l \in CurveLevelRanges} :
        init_error(c) = None}

\* The files of the temperatures from 29 C to 61 C, every half degree, and
\* of those halfway between two steps of the range 32 C to 46 C in 5 steps.
CurveRaws == {29000 + 500 * i : i \in 0..64} \cup {33400, 36200, 41800, 44600}

NoLevel == [gain |-> 0, level |-> 0, error |-> FALSE]

\* The zone self, the files raw1 and raw2 of two readings and, once applied,
\* what the mapping gives for each.
NoCurve ==
    [self |-> NoCpuZone, raw1 |-> 0, raw2 |-> 0, r1 |-> NoLevel, r2 |-> NoLevel,
     applied |-> FALSE]

CurveInit ==
    /\ pc = "exit 8"
    /\ now = 0
    /\ conf = [cpu_enabled |-> FALSE, hd_enabled |-> FALSE]
    /\ cpu = NoCpuZone
    /\ hd = NoHdZone
    /\ ipmi = NoIpmi
    /\ tick = NoTick
    /\ curve \in {[NoCurve EXCEPT !.self = FanController("CPU zone", c, 0),
                                  !.raw1 = raw1, !.raw2 = raw1] :
                      c \in CurveParams, raw1 \in CurveRaws}
    /\ agg = [c |-> Params(CPU_ZONE, 1, CALC_AVG, 1, 1, 0, 0, 0, 0, 0), files |-> <<>>,
              result |-> [error |-> FALSE, value |-> NoTemp, reads |-> 0], calls |-> 0]

\* Step 3 of run() for the reading of raw1 and for a reading of raw2 >= raw1.
ApplyCurve ==
    /\ ~curve.applied
    /\ \E r1 \in {calc_level(curve.self, read_temp(File(curve.raw1)))} :
          \E raw2 \in {raw \in CurveRaws : curve.raw1 <= raw} :
              curve' = [curve EXCEPT
                           !.raw2 = raw2,
                           !.r1 = r1,
                           !.r2 = calc_level(curve.self, read_temp(File(raw2))),
                           !.applied = TRUE]
    /\ UNCHANGED <<agg, pc, now, conf, cpu, hd, ipmi, tick>>

AggFiles == {File(-5000), File(-3000), File(30000), File(40000), File(50000), Unreadable}

AggParams ==
    {Params(CPU_ZONE, n, calc, 6, 3, 2, 30, 60, 35, 100) :
        n \in 1..MaxSensors, calc \in {CALC_MIN, CALC_AVG, CALC_MAX}}

AggInit ==
    /\ pc = "exit 8"
    /\ now = 0
    /\ conf = [cpu_enabled |-> FALSE, hd_enabled |-> FALSE]
    /\ cpu = NoCpuZone
    /\ hd = NoHdZone
    /\ ipmi = NoIpmi
    /\ tick = NoTick
    /\ agg \in {[c |-> c, files |-> <<>>,
                 result |-> [error |-> FALSE, value |-> NoTemp, reads |-> 0],
                 calls |-> 0] : c \in AggParams}
    /\ curve = NoCurve

\* One call of get_temp_func() with the files as they are at that time.
CallGetTemp ==
    /\ agg.calls < MaxCalls
    /\ \E files \in [1..agg.c.count -> AggFiles] :
          agg' = [agg EXCEPT !.files = files,
                             !.result = get_temp_func(agg.c, files),
                             !.calls = agg.calls + 1]
    /\ UNCHANGED <<curve, pc, now, conf, cpu, hd, ipmi, tick>>

-----------------------------------------------------------------------------
(* main *)

\* What the reads of the files of zone z can give: nothing can be read at an
\* empty path.
ZoneReads(z) ==
    {files \in [1..z.c.count -> ZoneFiles(z) \cup {Unreadable}] :
        \A i \in 1..z.c.count :
            IF hwmon_path(z)[i] THEN files[i] \in ZoneFiles(z) ELSE files[i] = Unreadable}

\* What the search for the files of the disks can find; it is not made where
\* the section has the hwmon_path= item.
Searches(k) ==
    IF k.hwmon > 0 \/ k.c.count <= 0
    THEN {HdSearch(TRUE, TRUE, <<>>)}
    ELSE {HdSearch(links, globs, listed) :
             links \in BOOLEAN, globs \in BOOLEAN, listed \in [1..k.c.count -> BOOLEAN]}

\* What the fan mode query gives: ok is FALSE where get_fan_mode raises.
ModeReads == {[ok |-> TRUE, mode |-> 0], [ok |-> TRUE, mode |-> FULL_MODE],
              [ok |-> FALSE, mode |-> 0]}

\* The exit statuses of `smartctl -s standby,now` when the one for disk f is 1
\* (f = 0: none fails).
StandbyRuns(n, f) == [i \in 1..n |-> IF i = f THEN 1 ELSE 0]

Answer(q, rc, files, tool) ==
    [q |-> q, rc |-> rc, files |-> files, tool |-> tool, took |-> 0, spent |-> 0]

\* The time that n runs of smartctl can take, in half seconds.
Took(n) == IF n = 0 THEN {0} ELSE 0..MaxLate

Quiet == Answer(<<>>, <<>>, <<>>, Tool(TRUE, 0))

\* The answers of the outside world that a call of run() on z at time t can
\* meet, each listed once: an answer is left at its default where the call does
\* not ask for it.
GuardAnswers(z, t) ==
    IF ~(z.c.ipmi_zone = HD_ZONE /\ z.standby_guard_enabled) THEN {Quiet}
    ELSE UNION {
        LET chk == check_standby_state(z.standby_array_states, q)
        IN  IF ~chk.error /\ ~z.standby_flag /\ chk.count >= z.standby_hd_limit
            THEN {Answer(q, StandbyRuns(z.c.count, f), <<>>, Tool(TRUE, 0)) :
                     f \in {0} \cup {i \in 1..z.c.count : ~chk.states[i]}}
            ELSE {Answer(q, StandbyRuns(z.c.count, 0), <<>>, Tool(TRUE, 0))}
        : q \in [1..z.c.count -> SmartRuns]}

\* The answers and the time the queries of the disks take.
TimedGuardAnswers(z, t) ==
    UNION {{[g EXCEPT !.took = d] : d \in Took(Len(g.q))} : g \in GuardAnswers(z, t)}

Answers(z, t) ==
    IF too_early(z, t) THEN {Quiet}
    ELSE UNION {
        IF callback_func(z, g.q, g.rc, t).error # None THEN {g}
        ELSE UNION {
            LET a == [g EXCEPT !.files = files]
            IN  IF run(z, t, a).tick.fan_calls = <<>>
                THEN {[a EXCEPT !.spent = d] : d \in 0..MaxLate}
                ELSE {[a EXCEPT !.tool = tool, !.spent = d] :
                         tool \in ToolRuns, d \in 0..MaxLate}
            : files \in ZoneReads(z)}
        : g \in TimedGuardAnswers(z, t)}

\* The time that the call of run() before this one in the iteration took, its
\* sleep apart: the HD zone's call follows the CPU zone's.
Spent == IF pc = "hd" /\ conf.cpu_enabled THEN tick.late ELSE 0

\* The answers with which the calls of the iteration take at most MaxLate,
\* their sleeps apart.
InTime(answers) == {a \in answers : Spent + a.took + a.spent <= MaxLate}

\* The main loop's wait time, in half seconds (polling is in seconds).
Min(a, b) == IF a < b THEN a ELSE b

wait_largest ==
    IF conf.cpu_enabled /\ conf.hd_enabled
    THEN IF cpu.c.polling < hd.c.polling THEN hd.c.polling ELSE cpu.c.polling
    ELSE IF conf.cpu_enabled THEN cpu.c.polling
    ELSE hd.c.polling

wait ==
    IF conf.cpu_enabled /\ conf.hd_enabled THEN Min(cpu.c.polling, hd.c.polling)
    ELSE IF conf.cpu_enabled THEN cpu.c.polling
    ELSE hd.c.polling

Init ==
    /\ pc = "ipmi"
    /\ now = 0
    /\ conf \in Configs
    /\ cpu = NoCpuZone
    /\ hd = NoHdZone
    /\ ipmi = NoIpmi
    /\ tick = NoTick
    /\ curve = NoCurve
    /\ agg = [c |-> Params(CPU_ZONE, 1, CALC_AVG, 1, 1, 0, 0, 0, 0, 0), files |-> <<>>,
              result |-> [error |-> FALSE, value |-> NoTemp, reads |-> 0], calls |-> 0]

ConfInit ==
    /\ pc = "ipmi"
    /\ now = 0
    /\ conf \in ZoneConfigs
    /\ cpu = NoCpuZone
    /\ hd = NoHdZone
    /\ ipmi = NoIpmi
    /\ tick = NoTick
    /\ curve = NoCurve
    /\ agg = [c |-> Params(CPU_ZONE, 1, CALC_AVG, 1, 1, 0, 0, 0, 0, 0), files |-> <<>>,
              result |-> [error |-> FALSE, value |-> NoTemp, reads |-> 0], calls |-> 0]

OnTimeInit ==
    /\ pc = "ipmi"
    /\ now = 0
    /\ conf \in TimedConfigs
    /\ cpu = NoCpuZone
    /\ hd = NoHdZone
    /\ ipmi = NoIpmi
    /\ tick = NoTick
    /\ curve = NoCurve
    /\ agg = [c |-> Params(CPU_ZONE, 1, CALC_AVG, 1, 1, 0, 0, 0, 0, 0), files |-> <<>>,
              result |-> [error |-> FALSE, value |-> NoTemp, reads |-> 0], calls |-> 0]

\* The start with FULL_MODE set whatever the mode read.
StartIpmi_always_sets ==
    /\ pc = "ipmi"
    /\ \E sdr \in ToolRuns, m \in ModeReads, tool \in ToolRuns :
          IF Ipmi_error(conf.ipmi, sdr) # None \/ ~m.ok
          THEN pc' = "exit 7" /\ UNCHANGED <<ipmi, now>>
          ELSE LET w == Ipmi_set_fan_mode(conf.ipmi, FULL_MODE, tool)
               IN  /\ pc' = IF w.error = None THEN "cpu_init" ELSE "raised"
                   /\ ipmi' = [ipmi EXCEPT !.old_mode = m.mode,
                                           !.set_modes = <<FULL_MODE>>]
                   /\ now' = now + w.slept
    /\ UNCHANGED <<conf, cpu, hd, tick, curve, agg>>

\* Create the Ipmi instance, read the fan mode and set FULL_MODE if needed:
\* sdr is the run of ipmitool in Ipmi.__init__, m what get_fan_mode gives,
\* tool the run of ipmitool in set_fan_mode, whose exception nothing catches.
\* set_modes lists the calls of set_fan_mode.
StartIpmi ==
    /\ pc = "ipmi"
    /\ \E sdr \in ToolRuns, m \in ModeReads, tool \in ToolRuns :
          IF Ipmi_error(conf.ipmi, sdr) # None \/ ~m.ok
          THEN pc' = "exit 7" /\ UNCHANGED <<ipmi, now>>
          ELSE IF m.mode = FULL_MODE
          THEN /\ pc' = "cpu_init"
               /\ ipmi' = [ipmi EXCEPT !.old_mode = m.mode]
               /\ UNCHANGED now
          ELSE LET w == Ipmi_set_fan_mode(conf.ipmi, FULL_MODE, tool)
               IN  /\ pc' = IF w.error = None THEN "cpu_init" ELSE "raised"
                   /\ ipmi' = [ipmi EXCEPT !.old_mode = m.mode,
                                           !.set_modes = <<FULL_MODE>>]
                   /\ now' = now + w.slept
    /\ UNCHANGED <<conf, cpu, hd, tick, curve, agg>>

\* Create the CPU zone if it is enabled; an exception ends the process.
MakeCpuZone ==
    /\ pc = "cpu_init"
    /\ IF ~conf.cpu_enabled THEN pc' = "hd_init" /\ UNCHANGED cpu
       ELSE \E found \in BOOLEAN, readable \in BOOLEAN :
               IF CpuZone_error(conf.cpu, found, readable) # None
               THEN pc' = "raised" /\ UNCHANGED cpu
               ELSE pc' = "hd_init" /\ cpu' = CpuZone(conf.cpu, now)
    /\ UNCHANGED <<now, conf, hd, ipmi, tick, curve, agg>>

\* Create the HD zone if it is enabled; an exception ends the process.
MakeHdZone ==
    /\ pc = "hd_init"
    /\ IF ~conf.hd_enabled THEN pc' = "wait" /\ UNCHANGED <<hd, tick, now>>
       ELSE \E found \in BOOLEAN, readable \in BOOLEAN, search \in Searches(conf.hd),
               q \in [1..conf.hd.c.count -> SmartRuns] :
               \E took \in Took(HdZone_queries(conf.hd, found, readable, search, q)) :
                   /\ tick' = [NoTick EXCEPT
                                   !.name = "HdZone.__init__", !.time = now,
                                   !.cur_time = now + took, !.end = now + took,
                                   !.queries =
                                       HdZone_queries(conf.hd, found, readable, search, q)]
                   /\ now' = now + took
                   /\ IF HdZone_error(conf.hd, found, readable, search, q) # None
                      THEN pc' = "raised" /\ UNCHANGED hd
                      ELSE /\ pc' = "wait"
                           /\ hd' = HdZone(conf.hd, now, search, q, now + took)
    /\ UNCHANGED <<conf, cpu, ipmi, curve, agg>>

CalcWait_unchecked ==
    /\ pc = "wait"
    /\ pc' = "cpu"
    /\ UNCHANGED <<now, conf, cpu, hd, ipmi, tick, curve, agg>>

\* Calculate the wait time; without an enabled zone the service terminates.
CalcWait ==
    /\ pc = "wait"
    /\ pc' = IF conf.cpu_enabled \/ conf.hd_enabled THEN "cpu" ELSE "exit 8"
    /\ UNCHANGED <<now, conf, cpu, hd, ipmi, tick, curve, agg>>

\* The states the disks reported at the latest wake-up of the array, when the
\* guard has not put the array to standby since; <<>> otherwise.
WakeAfter ==
    IF tick.name = "HD zone" /\ tick.reported # <<>> /\ tick.error = None
    THEN IF tick.before.standby_flag /\ ~hd.standby_flag THEN tick.reported
         ELSE IF ~tick.before.standby_flag /\ hd.standby_flag THEN <<>>
         ELSE tick.wake
    ELSE tick.wake

\* The temperatures, in exact arithmetic, behind the zones' last_temp after
\* the call of run() recorded in t.
HeldAfter(t) ==
    IF t.accepted THEN [tick.held EXCEPT ![t.name] = t.exact] ELSE tick.held

\* my_cpu_zone.run() in the main loop; an exception ends the process.  The
\* clock is at tick.end when the call returns.
RunCpu ==
    /\ pc = "cpu"
    /\ IF ~conf.cpu_enabled THEN pc' = "hd" /\ UNCHANGED <<cpu, tick, ipmi, now>>
       ELSE \E a \in InTime(Answers(cpu, now)) :
               \E r \in {run(cpu, now, a)} :
                   /\ cpu' = r.z
                   /\ tick' = [r.tick EXCEPT !.wake = WakeAfter, !.late = @ + Spent,
                                              !.had = tick.held[r.tick.name],
                                              !.held = HeldAfter(r.tick)]
                   /\ ipmi' = Sent(r.tick)
                   /\ now' = r.tick.end
                   /\ pc' = IF r.tick.error = None THEN "hd" ELSE "raised"
    /\ UNCHANGED <<conf, hd, curve, agg>>

\* my_hd_zone.run() in the main loop; an exception ends the process.
RunHd ==
    /\ pc = "hd"
    /\ IF ~conf.hd_enabled THEN pc' = "sleep" /\ UNCHANGED <<hd, tick, ipmi, now>>
       ELSE \E a \in InTime(Answers(hd, now)) :
               \E r \in {run(hd, now, a)} :
                   /\ hd' = r.z
                   /\ tick' = [r.tick EXCEPT !.wake = WakeAfter, !.late = @ + Spent,
                                              !.had = tick.held[r.tick.name],
                                              !.held = HeldAfter(r.tick)]
                   /\ ipmi' = Sent(r.tick)
                   /\ now' = r.tick.end
                   /\ pc' = IF r.tick.error = None THEN "sleep" ELSE "raised"
    /\ UNCHANGED <<conf, cpu, curve, agg>>

\* The time by which the sleep can end late: the iteration takes at most
\* MaxLate beyond its sleeps, the time its calls of run() took included.
Late == 0..(MaxLate - tick.late)

\* time.sleep(wait): the clock moves on by the wait time and by late, the time
\* the other calls of the iteration and a late wake-up took.
Sleep ==
    /\ pc = "sleep"
    /\ \E late \in Late :
          /\ now + wait + late <= MaxTime
          /\ now' = now + wait + late
    /\ pc' = "cpu"
    /\ UNCHANGED <<conf, cpu, hd, ipmi, tick, curve, agg>>

\* The answers with which a call of run() takes no time, its sleep apart.
OnTime(answers) == {a \in answers : a.took + a.spent = 0}

\* my_cpu_zone.run() and my_hd_zone.run() when the calls take no time.
RunCpuOnTime ==
    /\ pc = "cpu"
    /\ IF ~conf.cpu_enabled THEN pc' = "hd" /\ UNCHANGED <<cpu, tick, ipmi, now>>
       ELSE \E a \in OnTime(Answers(cpu, now)) :
               \E r \in {run(cpu, now, a)} :
                   /\ cpu' = r.z
                   /\ tick' = [r.tick EXCEPT !.wake = WakeAfter,
                                              !.had = tick.held[r.tick.name],
                                              !.held = HeldAfter(r.tick)]
                   /\ ipmi' = Sent(r.tick)
                   /\ now' = r.tick.end
                   /\ pc' = IF r.tick.error = None THEN "hd" ELSE "raised"
    /\ UNCHANGED <<conf, hd, curve, agg>>

RunHdOnTime ==
    /\ pc = "hd"
    /\ IF ~conf.hd_enabled THEN pc' = "sleep" /\ UNCHANGED <<hd, tick, ipmi, now>>
       ELSE \E a \in OnTime(Answers(hd, now)) :
               \E r \in {run(hd, now, a)} :
                   /\ hd' = r.z
                   /\ tick' = [r.tick EXCEPT !.wake = WakeAfter,
                                              !.had = tick.held[r.tick.name],
                                              !.held = HeldAfter(r.tick)]
                   /\ ipmi' = Sent(r.tick)
                   /\ now' = r.tick.end
                   /\ pc' = IF r.tick.error = None THEN "sleep" ELSE "raised"
    /\ UNCHANGED <<conf, cpu, curve, agg>>

\* time.sleep(wait) when the process wakes up on time: the clock moves on by
\* the wait time (followed for twice as long as with Sleep).
SleepOnTime ==
    /\ pc = "sleep"
    /\ now + wait <= 2 * MaxTime
    /\ now' = now + wait
    /\ pc' = "cpu"
    /\ UNCHANGED <<conf, cpu, hd, ipmi, tick, curve, agg>>

\* A time stamp after the clock is set back by s; one that is older than
\* floor stays at floor.
SetBack(stamp, s, floor) == IF stamp - s < floor THEN floor ELSE stamp - s

\* The zone z with the clock set back by s.  run() compares last_time with
\* the clock only through current_time - last_time < polling, so that every
\* last_time more than the polling time old is as good as another; the
\* guard's timestamp is used for the log only.
Aged(z, s) ==
    IF ~z.made THEN z
    ELSE LET a == [z EXCEPT !.last_time = SetBack(@, s, -2 * (z.c.polling + 1))]
         IN  IF "standby_change_timestamp" \in DOMAIN z
             THEN [a EXCEPT !.standby_change_timestamp = SetBack(@, s, -MaxTime)]
             ELSE a

\* The loop going on with the HD zone's call after the sleep.
SleepLive_to_hd ==
    /\ pc = "sleep"
    /\ \E late \in Late :
          LET t == now + wait + late
          IN  IF t <= MaxTime
              THEN now' = t /\ UNCHANGED <<cpu, hd, tick>>
              ELSE /\ now' = 0
                   /\ cpu' = Aged(cpu, t)
                   /\ hd' = Aged(hd, t)
                   /\ tick' = [tick EXCEPT !.time = SetBack(@, t, -MaxTime),
                                           !.cur_time = SetBack(@, t, -MaxTime),
                                           !.end = SetBack(@, t, -MaxTime),
                                           !.before = Aged(@, t)]
    /\ pc' = "hd"
    /\ UNCHANGED <<conf, ipmi, curve, agg>>

\* time.sleep(wait) in a loop followed without end: as Sleep, and where the
\* clock would pass MaxTime the origin of time.monotonic() is moved to the
\* new instant (the clock shows 0 and every time stamp is set back).
SleepLive ==
    /\ pc = "sleep"
    /\ \E late \in Late :
          LET t == now + wait + late
          IN  IF t <= MaxTime
              THEN now' = t /\ UNCHANGED <<cpu, hd, tick>>
              ELSE /\ now' = 0
                   /\ cpu' = Aged(cpu, t)
                   /\ hd' = Aged(hd, t)
                   /\ tick' = [tick EXCEPT !.time = SetBack(@, t, -MaxTime),
                                           !.cur_time = SetBack(@, t, -MaxTime),
                                           !.end = SetBack(@, t, -MaxTime),
                                           !.before = Aged(@, t)]
    /\ pc' = "cpu"
    /\ UNCHANGED <<conf, ipmi, curve, agg>>

Next ==
    \/ StartIpmi
    \/ MakeCpuZone
    \/ MakeHdZone
    \/ CalcWait
    \/ RunCpu
    \/ RunHd
    \/ Sleep

Spec == Init /\ [][Next]_vars

SpecConf == ConfInit /\ [][Next]_vars

OnTimeNext ==
    \/ StartIpmi
    \/ MakeCpuZone
    \/ MakeHdZone
    \/ CalcWait
    \/ RunCpuOnTime
    \/ RunHdOnTime
    \/ SleepOnTime

SpecOnTime == OnTimeInit /\ [][OnTimeNext]_vars

LiveInit ==
    /\ pc = "ipmi"
    /\ now = 0
    /\ conf \in LiveConfigs
    /\ cpu = NoCpuZone
    /\ hd = NoHdZone
    /\ ipmi = NoIpmi
    /\ tick = NoTick
    /\ curve = NoCurve
    /\ agg = [c |-> Params(CPU_ZONE, 1, CALC_AVG, 1, 1, 0, 0, 0, 0, 0), files |-> <<>>,
              result |-> [error |-> FALSE, value |-> NoTemp, reads |-> 0], calls |-> 0]

LiveNext ==
    \/ StartIpmi
    \/ MakeCpuZone
    \/ MakeHdZone
    \/ CalcWait
    \/ RunCpu
    \/ RunHd
    \/ SleepLive

\* The process is scheduled again and again and its calls return: a step of
\* main() that can be taken is taken, and main() does not stay for ever at a
\* zone's call of run() (which can be taken whenever main() is at it, so that
\* this is weak fairness of RunCpu and of RunHd).
SpecLive ==
    /\ LiveInit /\ [][LiveNext]_vars
    /\ WF_vars(StartIpmi) /\ WF_vars(MakeCpuZone) /\ WF_vars(MakeHdZone)
    /\ WF_vars(CalcWait) /\ WF_vars(SleepLive)
    /\ []<>(pc # "cpu") /\ []<>(pc # "hd")

CurveNext == ApplyCurve

SpecCurve == CurveInit /\ [][CurveNext]_vars

AggNext == CallGetTemp

SpecAgg == AggInit /\ [][AggNext]_vars

-----------------------------------------------------------------------------
(* Properties *)

\* The zone the latest call of run() was made on, as it is now.
TickZone == IF tick.name = "CPU zone" THEN cpu ELSE hd

Ticked == tick.name \in {"CPU zone", "HD zone"}

\* The elapsed time of the latest call was shorter than the polling time.
TickEarly ==
    Ticked /\ tick.time - tick.before.last_time < 2 * tick.before.c.polling

\* C1: a call of run() made while (now - last_time) < polling does nothing: no
\* smartctl run, no read of a hwmon file, no call of set_fan_level, and the
\* zone (last_time, last_temp, last_level, standby state) stays as it was.
C1_PollingGate ==
    TickEarly =>
        /\ ~tick.passed
        /\ tick.queries = 0
        /\ tick.standby_writes = <<>>
        /\ tick.reads = 0
        /\ tick.fan_calls = <<>>
        /\ tick.error = None
        /\ TickZone = tick.before

\* A call on the HD zone with the guard enabled came too early.
C1_Witness ==
    /\ TickEarly
    /\ tick.name = "HD zone"
    /\ tick.before.standby_guard_enabled
    /\ tick.before.last_level > 0

\* The temperature in the files of the latest call is closer than the
\* sensitivity to the one in the files when last_temp was accepted.
TickWithin ==
    /\ Ticked
    /\ tick.sampled
    /\ RLess(RAbs(RSub(tick.exact, tick.had)), IntRat(tick.before.c.sensitivity))

\* C2: in a call that passes the polling gate and reads a temperature with
\* |new_temp - last_temp| < sensitivity, last_temp and last_level stay as they
\* were and set_fan_level is not called, while last_time is the call's time.
C2_Hysteresis ==
    TickWithin =>
        /\ ~tick.accepted
        /\ TickZone.last_temp = tick.before.last_temp
        /\ TickZone.last_level = tick.before.last_level
        /\ tick.fan_calls = <<>>
        /\ TickZone.last_time = tick.time

\* A reading that differs from the accepted temperature was discarded.
C2_Witness ==
    /\ TickWithin
    /\ tick.exact # tick.had
    /\ tick.before.last_level > 0
    /\ tick.time > tick.before.last_time

\* C3: in a call that accepts the reading, set_fan_level is called if and only
\* if the computed level differs from last_level: if it is equal there is no
\* call and last_level stays, otherwise last_level becomes the computed level
\* and there is exactly one call, for the zone, with that level.
C3_WriteIffLevelDiffers ==
    (Ticked /\ tick.accepted /\ tick.error # "ZeroDivisionError") =>
        IF tick.level = tick.before.last_level
        THEN /\ tick.fan_calls = <<>>
             /\ TickZone.last_level = tick.before.last_level
        ELSE /\ tick.fan_calls = <<<<tick.before.c.ipmi_zone, tick.level>>>>
             /\ TickZone.last_level = tick.level

\* An accepted reading with the level unchanged, after a level was applied.
C3_Witness ==
    /\ Ticked
    /\ tick.accepted
    /\ tick.level = tick.before.last_level
    /\ tick.temp # tick.before.last_temp
    /\ tick.fan_calls = <<>>

\* C4: the mapping is monotonic: for temperatures t1 <= t2, level(t1) <=
\* level(t2) and gain(t1) <= gain(t2), for every accepted configuration.
C4_Monotonic ==
    (curve.applied /\ curve.raw1 <= curve.raw2) =>
        /\ curve.r1.level <= curve.r2.level
        /\ curve.r1.gain <= curve.r2.gain

\* Two temperatures inside the range with different levels.
C4_Witness ==
    /\ curve.applied
    /\ MilliDegree * curve.self.c.min_temp < curve.raw1
    /\ curve.raw1 < curve.raw2
    /\ MilliDegree * curve.self.c.max_temp <= curve.raw2
    /\ curve.r1.level < curve.r2.level
    /\ curve.r1.gain > 0

\* C5 as claimed: for every accepted configuration, max_temp = min_temp
\* included, level(min_temp) = min_level with gain 0 and level(max_temp) =
\* max_level with gain = steps.
C5_Endpoints ==
    curve.applied =>
        /\ curve.raw1 = MilliDegree * curve.self.c.min_temp =>
               curve.r1.gain = 0 /\ curve.r1.level = curve.self.c.min_level
        /\ curve.raw1 = MilliDegree * curve.self.c.max_temp =>
               /\ curve.r1.gain = curve.self.c.steps
               /\ curve.r1.level = curve.self.c.max_level

\* C5 amended: level(min_temp) = min_level with gain 0 for every accepted
\* configuration; level(max_temp) = max_level with gain = steps when
\* max_temp > min_temp; when max_temp = min_temp, level(max_temp) = min_level
\* with gain 0.
C5_EndpointsAmended ==
    curve.applied =>
        /\ curve.raw1 = MilliDegree * curve.self.c.min_temp =>
               /\ ~curve.r1.error
               /\ curve.r1.gain = 0
               /\ curve.r1.level = curve.self.c.min_level
        /\ (/\ curve.raw1 = MilliDegree * curve.self.c.max_temp
            /\ curve.self.c.max_temp > curve.self.c.min_temp) =>
               /\ ~curve.r1.error
               /\ curve.r1.gain = curve.self.c.steps
               /\ curve.r1.level = curve.self.c.max_level

\* The mapping was applied to max_temp = min_temp with max_level > min_level.
C5_Witness ==
    /\ curve.applied
    /\ curve.self.c.max_temp = curve.self.c.min_temp
    /\ curve.self.c.max_level > curve.self.c.min_level
    /\ curve.raw1 = MilliDegree * curve.self.c.max_temp
    /\ curve.r1.level = curve.self.c.min_level

\* k is the rational a rounded to the nearest integer, a tie to the even one.
NearestEven(k, a) ==
    LET twice == 2 * Abs(a.n - k * a.d)
    IN  twice <= a.d /\ (twice = a.d => k % 2 = 0)

Example == Params(CPU_ZONE, 1, CALC_AVG, 6, 3, 2, 30, 60, 35, 100)

\* C6: for min_temp < temp < max_temp the gain is (temp - min_temp) / temp_step
\* and the level is gain * level_step, each rounded half to even, plus
\* min_level; with steps = 6, 30..60 C and 35..100 % the mapping gives
\* level(30) = 35, level(45) = 67 at gain 3, and level(60) = 100.  The
\* quotient and the product are those of the temperature in the file and of
\* the configuration, in exact arithmetic.
C6_RoundedSteps ==
    curve.applied =>
        /\ (/\ MilliDegree * curve.self.c.min_temp < curve.raw1
            /\ curve.raw1 < MilliDegree * curve.self.c.max_temp) =>
               /\ NearestEven(curve.r1.gain,
                      Rat((curve.raw1 - MilliDegree * curve.self.c.min_temp)
                              * curve.self.c.steps,
                          MilliDegree * (curve.self.c.max_temp - curve.self.c.min_temp)))
               /\ NearestEven(curve.r1.level - curve.self.c.min_level,
                      Rat(curve.r1.gain
                              * (curve.self.c.max_level - curve.self.c.min_level),
                          curve.self.c.steps))
        /\ curve.self.c = Example =>
               /\ curve.raw1 = 30000 => curve.r1.level = 35
               /\ curve.raw1 = 45000 => curve.r1.level = 67 /\ curve.r1.gain = 3
               /\ curve.raw1 = 60000 => curve.r1.level = 100

\* The example of C6 alone: level(30) = 35, level(45) = 67 at gain 3, where
\* gain * level_step = 32.5 is a tie, and level(60) = 100.
C6_ExampleLevels ==
    (curve.applied /\ curve.self.c = Example) =>
        /\ curve.raw1 = 30000 => curve.r1.level = 35
        /\ curve.raw1 = 45000 => curve.r1.level = 67 /\ curve.r1.gain = 3
        /\ curve.raw1 = 60000 => curve.r1.level = 100

\* C7: the computation of gain and level raises no error for any temperature
\* under any accepted configuration, max_temp = min_temp and max_level =
\* min_level included.
C7_NoDivisionByZero ==
    curve.applied => ~curve.r1.error /\ ~curve.r2.error

\* The mapping was applied at and above max_temp = min_temp.
C7_Witness ==
    /\ curve.applied
    /\ curve.self.c.max_temp = curve.self.c.min_temp
    /\ curve.raw1 = MilliDegree * curve.self.c.min_temp
    /\ curve.raw1 < curve.raw2
    /\ curve.self.c.max_level = curve.self.c.min_level

\* The temperatures in the files of the latest call of get_temp_func().
AggValues == {read_temp(agg.files[i]) : i \in 1..Len(agg.files)}

\* C8: for a zone with two or more sensors, the temperature one call returns
\* is the minimum (CALC_MIN), the mean (CALC_AVG) or the maximum (CALC_MAX)
\* of the values of all the files at that call, each read once and divided by
\* 1000, for any readings, negative ones included, whatever earlier calls
\* read; the mean is the float nearest to the sum of the numbers in the files
\* over 1000 times their count.
C8_Aggregate ==
    (agg.calls > 0 /\ agg.c.count >= 2 /\ ~agg.result.error) =>
        /\ agg.result.reads = agg.c.count
        /\ agg.c.temp_calc = CALC_MIN =>
               /\ agg.result.value \in AggValues
               /\ \A v \in AggValues : FLeq(agg.result.value, v)
        /\ agg.c.temp_calc = CALC_MAX =>
               /\ agg.result.value \in AggValues
               /\ \A v \in AggValues : FLeq(v, agg.result.value)
        /\ agg.c.temp_calc = CALC_AVG =>
               agg.result.value = FDiv(Float(raw_sum(agg.files, 1)),
                                       Float(MilliDegree * agg.c.count))

\* A file of the latest call could not be read.
TickUnreadable ==
    /\ Ticked
    /\ tick.reads > 0
    /\ \E i \in 1..Len(tick.files) : ~tick.files[i].readable

\* C9: if a sensor file cannot be read during a call of run(), the
\* aggregation fails and no partial aggregate is used: last_temp and
\* last_level stay as they were and set_fan_level is not called.
C9_ReadFailure ==
    TickUnreadable =>
        /\ tick.error = "IOError"
        /\ ~tick.sampled
        /\ TickZone.last_temp = tick.before.last_temp
        /\ TickZone.last_level = tick.before.last_level
        /\ tick.fan_calls = <<>>

\* The first disk's file was read and the second one could not be.
C9_Witness ==
    /\ TickUnreadable
    /\ tick.name = "HD zone"
    /\ tick.files[1].readable
    /\ ~tick.files[2].readable
    /\ tick.reads = 2
    /\ tick.before.last_level > 0

\* The latest call was ended by a failure of a read or of an external tool.
TickAborted ==
    Ticked /\ tick.error \in {"IOError", "smartctl query", "smartctl standby",
                              "FileNotFoundError", "ValueError"}

\* C10 as claimed: a call of run() ended by an I/O failure leaves last_time,
\* last_temp, last_level and the standby state (per-disk flags, aggregate flag,
\* timestamp) as they were when the call began.
C10_StateKept ==
    TickAborted => TickZone = tick.before

\* C10 amended: in a call ended by an I/O failure last_time is already the
\* call's time; last_temp and last_level are as they were unless it is
\* set_fan_level that failed, and then they already hold the new temperature
\* and level; the aggregate flag and its timestamp are as they were when it is
\* a smartctl run that failed, and when it is the read of a sensor or
\* set_fan_level they hold what the guard left before the read: the per-disk
\* flags are the states the disks reported (a disk the guard then put to
\* standby counting as in standby), and the aggregate flag is either as it
\* was, with the timestamp as it was, or turned over, with the timestamp of
\* this evaluation.  Without the guard the standby state is as it was.
C10_StateKeptAmended ==
    TickAborted =>
        /\ TickZone.last_time = tick.time
        /\ tick.error \in {"IOError", "smartctl query", "smartctl standby"} =>
               /\ TickZone.last_temp = tick.before.last_temp
               /\ TickZone.last_level = tick.before.last_level
               /\ tick.fan_calls = <<>>
        /\ tick.error \in {"FileNotFoundError", "ValueError"} =>
               /\ TickZone.last_temp = tick.temp
               /\ TickZone.last_level = tick.level
        /\ tick.error \in {"smartctl query", "smartctl standby"} =>
               /\ TickZone.standby_flag = tick.before.standby_flag
               /\ TickZone.standby_change_timestamp = tick.before.standby_change_timestamp
        /\ (tick.error = "IOError" /\ tick.name = "HD zone"
                /\ ~tick.before.standby_guard_enabled) =>
               hd = [tick.before EXCEPT !.last_time = tick.time]
        /\ (tick.error \in {"IOError", "FileNotFoundError", "ValueError"}
                /\ tick.name = "HD zone") =>
               /\ ~tick.before.standby_guard_enabled =>
                      /\ hd.standby_array_states = tick.before.standby_array_states
                      /\ hd.standby_flag = tick.before.standby_flag
                      /\ hd.standby_change_timestamp
                             = tick.before.standby_change_timestamp
               /\ tick.before.standby_guard_enabled =>
                      /\ hd.standby_array_states =
                             [i \in 1..hd.c.count |->
                                 tick.reported[i]
                                     \/ \E k \in 1..Len(tick.standby_writes) :
                                            tick.standby_writes[k] = i]
                      /\ IF hd.standby_flag = tick.before.standby_flag
                         THEN hd.standby_change_timestamp
                                  = tick.before.standby_change_timestamp
                         ELSE hd.standby_change_timestamp = tick.cur_time

\* The read of a sensor failed after the guard of the same call had put the
\* array to standby: the flag and the timestamp are no longer as they were.
C10_Witness ==
    /\ TickAborted
    /\ tick.error = "IOError"
    /\ tick.name = "HD zone"
    /\ tick.standby_writes # <<>>
    /\ hd.standby_flag /\ ~tick.before.standby_flag
    /\ hd.standby_change_timestamp # tick.before.standby_change_timestamp
    /\ hd.standby_array_states # tick.before.standby_array_states

\* Putting a disk to standby failed after another disk was put to standby.
C10_WitnessStandby ==
    /\ TickAborted
    /\ tick.error = "smartctl standby"
    /\ Len(tick.standby_writes) = 1
    /\ TickZone.standby_array_states # tick.before.standby_array_states
    /\ tick.time > 0

\* The latest call of run() ended with an exception.
TickRaised == Ticked /\ tick.error # None

\* C11: an error raised inside one zone's call of run() does not stop the main
\* loop, which goes on to the other zone's call and to the sleep.
C11_LoopSurvives ==
    TickRaised => pc \in {"hd", "sleep", "cpu"}

\* C12: when ipmitool ends with a nonzero exit status for a call of
\* set_fan_level, the call of run() ends with an error instead of completing
\* as if the level had been applied.
C12_ToolFailureEndsTick ==
    (Ticked /\ tick.fan_sent /\ tick.returncode # 0) => tick.error # None

\* The latest call of run() evaluated the standby guard and smartctl answered
\* the query of every disk.
TickGuard ==
    /\ tick.name = "HD zone"
    /\ tick.passed
    /\ tick.before.standby_guard_enabled
    /\ tick.error # "smartctl query"

\* The number of disks that reported standby in the latest evaluation.
TickStandby == Cardinality({i \in 1..Len(tick.reported) : tick.reported[i]})

\* The disks that reported active in the latest evaluation.
TickActive == {i \in 1..Len(tick.reported) : ~tick.reported[i]}

\* The disks written to, as a set, and whether they were written to in the
\* configured order, each once.
TickWritten == {tick.standby_writes[k] : k \in 1..Len(tick.standby_writes)}

TickWritesInOrder ==
    \A k \in 1..(Len(tick.standby_writes) - 1) :
        tick.standby_writes[k] < tick.standby_writes[k + 1]

\* C13: in a guard evaluation where the aggregate flag is false, the number of
\* disks reporting standby is >= the limit and all writes succeed, there is
\* exactly one standby write for each disk that reported active, in the
\* configured order, and none for a disk that reported standby; afterwards the
\* flag is true, every per-disk flag is standby and the timestamp is the
\* evaluation's time: the clock as the guard read it after its queries.
C13_GoingToStandby ==
    (/\ TickGuard
     /\ ~tick.before.standby_flag
     /\ TickStandby >= tick.before.standby_hd_limit
     /\ tick.error # "smartctl standby") =>
        /\ TickWritten = TickActive
        /\ TickWritesInOrder
        /\ TickZone.standby_flag
        /\ \A i \in 1..TickZone.c.count : TickZone.standby_array_states[i]
        /\ TickZone.standby_change_timestamp = tick.cur_time

\* Of three disks the second had gone to standby; the first and the third
\* were put to standby, in this order.
C13_Witness ==
    /\ TickGuard
    /\ ~tick.before.standby_flag
    /\ tick.before.standby_hd_limit = 1
    /\ tick.reported = <<FALSE, TRUE, FALSE>>
    /\ tick.standby_writes = <<1, 3>>
    /\ TickZone.standby_flag
    /\ tick.time > tick.before.standby_change_timestamp
    /\ tick.cur_time > tick.time

\* C14: in a guard evaluation where the aggregate flag is true and at least
\* one disk reports active, the flag becomes false, the timestamp becomes the
\* evaluation's time and no standby write is issued.
C14_WakeUp ==
    (TickGuard /\ tick.before.standby_flag /\ TickActive # {}) =>
        /\ ~TickZone.standby_flag
        /\ TickZone.standby_change_timestamp = tick.cur_time
        /\ tick.standby_writes = <<>>

\* One disk of an array in standby woke up, some time after the transition.
C14_Witness ==
    /\ TickGuard
    /\ tick.before.standby_flag
    /\ Cardinality(TickActive) = 1
    /\ tick.time > tick.before.standby_change_timestamp
    /\ tick.cur_time > tick.time
    /\ ~TickZone.standby_flag

\* The latest evaluation follows a wake-up in which only some disks became
\* active, no transition to standby has happened since, and every disk that
\* reports standby now reported standby at the wake-up already.
TickAfterPartialWake ==
    /\ TickGuard
    /\ tick.wake # <<>>
    /\ \E i \in 1..Len(tick.wake) : tick.wake[i]
    /\ \E i \in 1..Len(tick.wake) : ~tick.wake[i]
    /\ \A i \in 1..Len(tick.reported) : tick.reported[i] => tick.wake[i]

\* C15 as claimed: after a wake-up in which only some disks became active, a
\* later evaluation in which no disk has newly gone to standby does not force
\* the woken disks back to standby.
C15_NoForcingAfterWake ==
    TickAfterPartialWake =>
        \A k \in 1..Len(tick.standby_writes) : tick.wake[tick.standby_writes[k]]

\* C15 amended: after such a wake-up, an evaluation in which no disk has newly
\* gone to standby puts every disk that reports active to standby whenever the
\* number of disks reporting standby, those still in the standby they were
\* already in included, is >= the limit, and writes to no disk otherwise.
C15_ForcedAtLimit ==
    (TickAfterPartialWake /\ tick.error # "smartctl standby") =>
        IF TickStandby >= tick.before.standby_hd_limit
        THEN TickWritten = TickActive /\ TickZone.standby_flag
        ELSE tick.standby_writes = <<>> /\ ~TickZone.standby_flag

\* The disk that woke up is put to standby again at the next evaluation,
\* the other disks being in standby as before.
C15_Witness ==
    /\ TickAfterPartialWake
    /\ tick.wake = <<FALSE, TRUE, TRUE>>
    /\ tick.reported = tick.wake
    /\ tick.before.standby_hd_limit = 2
    /\ tick.standby_writes = <<1>>

\* C16: in a guard evaluation where the aggregate flag is false and fewer than
\* limit disks report standby, or the flag is true and every disk reports
\* standby, the flag and the timestamp stay as they were and no standby write
\* is issued.
C16_GuardNoOp ==
    (/\ TickGuard
     /\ \/ ~tick.before.standby_flag /\ TickStandby < tick.before.standby_hd_limit
        \/ tick.before.standby_flag /\ TickActive = {}) =>
        /\ TickZone.standby_flag = tick.before.standby_flag
        /\ TickZone.standby_change_timestamp = tick.before.standby_change_timestamp
        /\ tick.standby_writes = <<>>

\* One of three disks is in standby, below the limit of two, some time after
\* the construction.
C16_Witness ==
    /\ TickGuard
    /\ ~tick.before.standby_flag
    /\ tick.before.standby_hd_limit = 2
    /\ TickStandby = 1
    /\ tick.time > tick.before.standby_change_timestamp

\* C17: an enabled standby guard has a limit with 1 <= limit <= disk count
\* (the construction fails otherwise), so that the guard never puts a disk to
\* standby when no disk reports standby.
C17_LimitChecked ==
    /\ (hd.made /\ hd.standby_guard_enabled) =>
           (1 <= hd.standby_hd_limit /\ hd.standby_hd_limit <= hd.c.count)
    /\ (TickGuard /\ TickStandby = 0) => tick.standby_writes = <<>>

\* C18: with exactly one disk the standby guard is disabled whatever the
\* configuration says: neither the construction nor any call of run() runs
\* smartctl, for a query or for a standby write.
C18_OneDiskNoGuard ==
    (conf.hd_enabled /\ conf.hd.c.count = 1) =>
        /\ hd.made => ~hd.standby_guard_enabled
        /\ tick.name \in {"HdZone.__init__", "HD zone"} =>
               (tick.queries = 0 /\ tick.standby_writes = <<>>)

\* A zone of one disk configured with the guard enabled read its temperature.
C18_Witness ==
    /\ conf.hd_enabled
    /\ conf.hd.c.count = 1
    /\ conf.hd.standby_guard_enabled
    /\ tick.name = "HD zone"
    /\ tick.sampled
    /\ tick.time > 0

\* The guard's evaluation or the construction's query ended with an error.
GuardFailed ==
    \/ tick.name = "HD zone" /\ tick.error \in {"smartctl query", "smartctl standby"}
    \/ tick.name = "HdZone.__init__" /\ pc = "raised"

\* C19: right after the construction of an enabled guard and after every
\* guard evaluation that ends without error, the aggregate flag is true if and
\* only if every per-disk flag is standby.
C19_FlagConsistent ==
    (hd.made /\ hd.standby_guard_enabled /\ ~GuardFailed) =>
        (hd.standby_flag <=> \A i \in 1..hd.c.count : hd.standby_array_states[i])

\* The array was constructed with every disk in standby and one disk woke up.
C19_Witness ==
    /\ hd.made
    /\ hd.standby_guard_enabled
    /\ TickGuard
    /\ tick.before.standby_flag
    /\ tick.before.standby_change_timestamp = 0
    /\ ~hd.standby_flag
    /\ hd.standby_array_states = <<TRUE, FALSE, TRUE>>

\* The section k of the configuration gives a list of hwmon paths of another
\* length than count, or gives parameters out of their ranges.
BadSection(k) ==
    \/ k.hwmon > 0 /\ k.hwmon # k.c.count
    \/ k.c.max_temp < k.c.min_temp
    \/ k.c.max_level < k.c.min_level
    \/ k.c.count <= 0
    \/ k.c.steps <= 0
    \/ k.c.sensitivity <= 0
    \/ k.c.polling < 0

\* C20: the construction of a zone fails, and no controller is created, when
\* the list of hwmon paths has another length than count, or max_temp <
\* min_temp, or max_level < min_level, or count <= 0, steps <= 0, sensitivity
\* <= 0 or polling < 0: main() gets no further than that construction.
C20_BadSectionFails ==
    /\ (conf.cpu_enabled /\ BadSection(conf.cpu)) =>
           (~cpu.made /\ pc \in {"ipmi", "exit 7", "cpu_init", "raised"})
    /\ (conf.hd_enabled /\ BadSection(conf.hd)) =>
           (~hd.made /\ pc \in {"ipmi", "exit 7", "cpu_init", "hd_init", "raised"})

\* The construction of the CPU zone failed on two hwmon paths for count = 1,
\* all the files being there and readable otherwise.
C20_Witness ==
    /\ pc = "raised"
    /\ conf.cpu_enabled
    /\ ~cpu.made
    /\ conf.cpu.hwmon = 2
    /\ conf.cpu.c = ZoneParams(CPU_ZONE, 1)

\* C21: every constructed zone has min_level and max_level within [0, 100]:
\* the construction fails with either level outside that range.
C21_LevelsInRange ==
    /\ cpu.made => (0 <= cpu.c.min_level /\ cpu.c.max_level <= 100)
    /\ hd.made => (0 <= hd.c.min_level /\ hd.c.max_level <= 100)

\* The latest tick found the zone as its constructor left it: it is the
\* first run() call of that zone (the zones are constructed at time 0).
TickFirst ==
    /\ Ticked
    /\ tick.before.last_time = FanController(tick.name, tick.before.c, 0).last_time
    /\ tick.before.last_temp = Float(0)
    /\ tick.before.last_level = 0

\* C22: the first run() call after the construction passes the polling gate,
\* for every polling time >= 0 and however little time has passed since the
\* construction.
C22_FirstRunPasses == TickFirst => tick.passed

\* A first call with no time elapsed since the construction, for a zone with
\* polling time 0 and for one with a positive polling time.
C22_WitnessZeroPolling ==
    /\ TickFirst /\ tick.time = 0 /\ tick.passed
    /\ tick.before.c.polling = 0

C22_Witness ==
    /\ TickFirst /\ tick.time = 0 /\ tick.passed
    /\ tick.before.c.polling > 0

\* The smallest polling time among the enabled zones, which in half seconds
\* is the number of seconds of half of it.
HalfSmallestPolling ==
    LET P == {conf.cpu.c.polling : e \in {e \in {1} : conf.cpu_enabled}}
             \cup {conf.hd.c.polling : e \in {e \in {1} : conf.hd_enabled}}
    IN  CHOOSE p \in P : \A q \in P : p <= q

\* The latest call sampled its zone and was not the zone's first one.
TickSampledAgain == Ticked /\ tick.passed /\ ~TickFirst

\* The time, in half seconds, between the sampling of the latest call and the
\* one before it of the same zone.
TickGap == tick.time - tick.before.last_time

\* The calls of run() take no time: no sleep after a fan level is set (under
\* SpecOnTime the reads, the runs of ipmitool and the rest of a call take no
\* time, and none of its configurations has the standby guard).
TicksTakeNoTime == conf.ipmi.fan_level_delay = 0

SleepsHalfSmallest ==
    [][pc = "sleep" => now' - now = HalfSmallestPolling]_vars

\* C23 as stated: the loop sleeps for half of the smallest polling time of the
\* enabled zones, and, the calls taking no time, two consecutive samplings of
\* a zone with polling time P are at least P and less than P plus one sleep
\* time apart.
C23_SamplingPeriod ==
    /\ SleepsHalfSmallest
    /\ [](TicksTakeNoTime /\ TickSampledAgain =>
            /\ TickGap >= 2 * tick.before.c.polling
            /\ TickGap < 2 * tick.before.c.polling + HalfSmallestPolling)

\* C23, amended: the upper bound is strict while the sleep time is positive;
\* with a smallest polling time of 0 the loop does not sleep and a zone with
\* polling time 0 is sampled again at once.
C23_SamplingPeriodPositive ==
    /\ SleepsHalfSmallest
    /\ [](TicksTakeNoTime /\ TickSampledAgain =>
            /\ TickGap >= 2 * tick.before.c.polling
            /\ HalfSmallestPolling > 0
                  => TickGap < 2 * tick.before.c.polling + HalfSmallestPolling
            /\ HalfSmallestPolling = 0 => TickGap = 0 /\ tick.before.c.polling = 0)

\* The zone with the larger polling time is sampled again, later than its
\* polling time after the sampling before.
C23_Witness ==
    /\ TicksTakeNoTime /\ TickSampledAgain
    /\ conf.cpu_enabled /\ conf.hd_enabled
    /\ tick.before.c.polling > HalfSmallestPolling
    /\ TickGap > 2 * tick.before.c.polling

C23_WitnessNoSleep ==
    /\ TickSampledAgain /\ HalfSmallestPolling = 0 /\ TickGap = 0

NoZoneEnabled == ~conf.cpu_enabled /\ ~conf.hd_enabled

\* The constructor of an enabled zone has raised (or set_fan_mode had, before
\* any constructor was called).
ConstructionFailed ==
    \/ conf.cpu_enabled /\ ~cpu.made /\ pc \notin {"ipmi", "exit 7", "cpu_init"}
    \/ conf.hd_enabled /\ ~hd.made /\ pc \notin {"ipmi", "exit 7", "cpu_init", "hd_init"}

InLoop == pc \in {"cpu", "hd", "sleep"}

\* C24: with no zone enabled, or when the construction of an enabled zone
\* has failed, the process ends with an error before the loop: the loop is
\* never entered, no call of run() is made and no fan level is written.
C24_NoLoopWithoutZones ==
    /\ NoZoneEnabled =>
          /\ pc \in {"ipmi", "exit 7", "raised", "cpu_init", "hd_init", "wait", "exit 8"}
          /\ ~Ticked /\ tick.fan_calls = <<>>
    /\ ConstructionFailed =>
          /\ pc = "raised" /\ ~ENABLED Next
          /\ ~Ticked /\ tick.fan_calls = <<>>
    /\ pc = "exit 8" => NoZoneEnabled /\ ~ENABLED Next
    /\ (InLoop \/ Ticked) =>
          /\ ~NoZoneEnabled
          /\ conf.cpu_enabled => cpu.made
          /\ conf.hd_enabled => hd.made

\* The CPU zone is constructed and the constructor of the HD zone has raised.
C24_Witness ==
    /\ conf.cpu_enabled /\ cpu.made /\ conf.hd_enabled
    /\ ConstructionFailed /\ pc = "raised"

C24_WitnessNoZone == NoZoneEnabled /\ pc = "exit 8"

\* The startup step that reads the fan mode has not been passed.
BeforeMode == pc \in {"ipmi", "exit 7"}

\* C25: the fan mode is read before any zone is constructed; FULL_MODE is
\* requested exactly when the mode read is another one, at most once and
\* never in the loop; every fan level is written after that step.
C25_FullModeOnce ==
    /\ BeforeMode =>
          /\ ipmi.set_modes = <<>>
          /\ ~cpu.made /\ ~hd.made /\ tick = NoTick
    /\ ~BeforeMode =>
          ipmi.set_modes = IF ipmi.old_mode # FULL_MODE THEN <<FULL_MODE>> ELSE <<>>
    /\ tick.fan_calls # <<>> => ~BeforeMode

\* A fan level is written after FULL_MODE was requested at the start.
C25_Witness ==
    /\ Ticked /\ tick.fan_sent
    /\ ipmi.old_mode # FULL_MODE /\ ipmi.set_modes = <<FULL_MODE>>

\* A fan level is written with no request made: the mode read was FULL_MODE.
C25_WitnessFull ==
    /\ Ticked /\ tick.fan_sent /\ tick.time > 0
    /\ ipmi.old_mode = FULL_MODE /\ ipmi.set_modes = <<>>

LevelsInRange(c) == 0 <= c.min_level /\ c.max_level <= 100

InRange(c, r) ==
    /\ ~r.error
    /\ r.gain \in 0..c.steps
    /\ r.level \in c.min_level..c.max_level
    /\ r.level \in 0..100

\* C26: for a zone with 0 <= min_level <= max_level <= 100 every level
\* computed for a reading is an integer in [min_level, max_level], hence in
\* [0, 100], and every step computed is in [0, steps].
C26_LevelWithinLimits ==
    (curve.applied /\ LevelsInRange(curve.self.c)) =>
        InRange(curve.self.c, curve.r1) /\ InRange(curve.self.c, curve.r2)

\* C26 in the main loop: every level passed to Ipmi.set_fan_level by a zone
\* with levels in that range is within the zone's limits.
C26_WrittenWithinLimits ==
    (Ticked /\ tick.fan_calls # <<>> /\ LevelsInRange(tick.before.c)) =>
        /\ tick.fan_calls[1][2] \in tick.before.c.min_level..tick.before.c.max_level
        /\ tick.fan_calls[1][2] \in 0..100
        /\ tick.gain \in 0..tick.before.c.steps

\* A reading above max_temp and one between the limits whose step is rounded.
C26_Witness ==
    /\ curve.applied /\ LevelsInRange(curve.self.c)
    /\ curve.self.c.min_level < curve.self.c.max_level
    /\ MilliDegree * curve.self.c.max_temp < curve.raw2
    /\ curve.r2.level = curve.self.c.max_level
    /\ curve.r1.gain \in 1..(curve.self.c.steps - 1)

\* The latest call was the HD zone's, passed the polling gate and found the
\* guard enabled.
TickGuarded ==
    tick.name = "HD zone" /\ tick.passed /\ tick.before.standby_guard_enabled

\* C27: an HD zone's call that passes the polling gate with the guard enabled
\* evaluates the guard once (every disk is queried once, up to a failing
\* query), after last_time is set and before any sensor is read, also when the
\* temperature change is then within the sensitivity; a CPU zone's call, and
\* an HD zone's without the guard or before its polling time, runs no smartctl.
C27_GuardOncePerTick ==
    /\ TickGuarded =>
          /\ tick.queries \in 1..tick.before.c.count
          /\ tick.error # "smartctl query" =>
                /\ tick.queries = tick.before.c.count
                /\ Len(tick.reported) = tick.before.c.count
          /\ tick.error \in {"smartctl query", "smartctl standby"} =>
                /\ hd.last_time = tick.time
                /\ tick.reads = 0 /\ tick.files = <<>> /\ ~tick.sampled
    /\ (Ticked /\ ~TickGuarded) =>
          /\ tick.queries = 0 /\ tick.reported = <<>> /\ tick.standby_writes = <<>>
    /\ tick.name = "CPU zone" =>
          /\ tick.queries = 0 /\ tick.reported = <<>> /\ tick.standby_writes = <<>>

\* The guard was evaluated in a call whose reading was within the sensitivity.
C27_Witness ==
    /\ TickGuarded /\ tick.time > 0
    /\ tick.sampled /\ ~tick.accepted /\ tick.fan_calls = <<>>
    /\ tick.queries = tick.before.c.count

\* The latest call passed the polling gate and was ended by the guard or by
\* the read of the temperature.
TickSamplingFailed ==
    /\ Ticked /\ tick.passed
    /\ tick.error \in {"smartctl query", "smartctl standby", "IOError"}

\* C28: last_time is set before the guard and the read: when either fails in a
\* call that passed the polling gate, last_time is that call's time, and a
\* call of run() made on the zone less than the polling time later returns at
\* the gate, without a smartctl run or a read.
C28_StampBeforeSampling ==
    TickSamplingFailed =>
        /\ TickZone.last_time = tick.time
        /\ \A t \in tick.time..(tick.time + 2 * TickZone.c.polling - 1) :
              LET r == run(TickZone, t, Quiet)
              IN  /\ ~r.tick.passed
                  /\ r.tick.queries = 0 /\ r.tick.reads = 0
                  /\ r.z = TickZone

\* The read failed in a call made later than the polling time after the one
\* before, on a zone with a positive polling time.
C28_Witness ==
    /\ TickSamplingFailed /\ tick.error = "IOError"
    /\ tick.before.c.polling > 0
    /\ tick.time > 0 /\ tick.before.last_time >= 0
    /\ TickZone.last_time = tick.time

C28_WitnessGuard ==
    /\ TickSamplingFailed /\ tick.error = "smartctl query"
    /\ tick.time > 0 /\ TickZone.last_time = tick.time

\* The latest call was ended by a failed `smartctl -s standby,now`.
TickStandbyFailed == tick.name = "HD zone" /\ tick.error = "smartctl standby"

\* The disk of the last standby write of the latest call.
TickLastWritten == tick.standby_writes[Len(tick.standby_writes)]

\* C29: when a standby write fails in a going-to-standby action, the action
\* ends at that disk: the active disks before it were written to and count as
\* being in standby, the failing disk is the last one written to and still
\* counts as active, no disk after it is written to, the flag stays false,
\* the timestamp is unchanged, and the call reads no sensor and writes no fan
\* level.
C29_StandbyWriteFailure ==
    TickStandbyFailed =>
        /\ tick.standby_writes # <<>>
        /\ TickWritesInOrder
        /\ TickWritten = {i \in TickActive : i <= TickLastWritten}
        /\ ~hd.standby_array_states[TickLastWritten]
        /\ \A i \in TickWritten \ {TickLastWritten} : hd.standby_array_states[i]
        /\ \A i \in 1..hd.c.count :
              i > TickLastWritten =>
                  /\ i \notin TickWritten
                  /\ hd.standby_array_states[i] = tick.reported[i]
        /\ ~tick.before.standby_flag /\ ~hd.standby_flag
        /\ hd.standby_change_timestamp = tick.before.standby_change_timestamp
        /\ tick.reads = 0 /\ tick.files = <<>> /\ ~tick.sampled
        /\ tick.fan_calls = <<>>
        /\ hd.last_temp = tick.before.last_temp /\ hd.last_level = tick.before.last_level

\* The write fails for an active disk that has an active disk after it, later
\* than the construction so that the timestamp would have changed.
C29_Witness ==
    /\ TickStandbyFailed /\ tick.time > 0
    /\ \E i \in TickActive : i > TickLastWritten
    /\ tick.before.standby_change_timestamp < tick.time

\* The latest call passed the polling gate and ended without an exception.
TickCompleted == Ticked /\ tick.passed /\ tick.error = None

\* C30: after every call that passed the polling gate and ended without an
\* exception, last_temp is the temperature read in the call or differs from it
\* by less than the sensitivity, so that a drift is accepted once it is the
\* sensitivity away from last_temp.  The temperatures are those the files
\* held, at this call and at the call that accepted last_temp.
C30_BoundedLag ==
    TickCompleted =>
        /\ tick.sampled
        /\ \/ tick.held[tick.name] = tick.exact
           \/ RLess(RAbs(RSub(tick.exact, tick.held[tick.name])),
                    IntRat(TickZone.c.sensitivity))

\* C30 for the readings whose distance from last_temp is not the sensitivity
\* itself: last_temp is then the temperature read or less than the
\* sensitivity away.
C30_LagOffTheLimit ==
    (TickCompleted /\ RAbs(RSub(tick.exact, tick.had)) # IntRat(TickZone.c.sensitivity)) =>
        /\ tick.sampled
        /\ \/ tick.held[tick.name] = tick.exact
           \/ RLess(RAbs(RSub(tick.exact, tick.held[tick.name])),
                    IntRat(TickZone.c.sensitivity))

\* At least one reading of the zone z has been accepted: the latest call
\* accepted one, or last_temp is no longer the 0 it was constructed with.
HasAccepted(z) ==
    \/ z.last_temp # Float(0)
    \/ Ticked /\ tick.name = z.name /\ tick.accepted

\* The level applied for the zone z follows its accepted temperature.
LevelTracks(z) ==
    /\ ipmi.levels[z.c.ipmi_zone] # -1
    /\ ipmi.levels[z.c.ipmi_zone] = z.last_level
    /\ z.last_level = levels[z.c][z.last_temp].level

\* C31: while no call of run() has raised, for every zone with levels in
\* [0, 100] (min_level = 0 included) of which a reading has been accepted, a
\* fan level has been sent for the zone, the level sent last is last_level,
\* and last_level is the level of the curve for last_temp.
C31_AppliedLevelTracks ==
    pc # "raised" =>
        /\ (cpu.made /\ LevelsInRange(cpu.c) /\ HasAccepted(cpu)) => LevelTracks(cpu)
        /\ (hd.made /\ LevelsInRange(hd.c) /\ HasAccepted(hd)) => LevelTracks(hd)

\* The same for the zones with min_level > 0.
C31_TracksAboveZero ==
    pc # "raised" =>
        /\ (cpu.made /\ LevelsInRange(cpu.c) /\ cpu.c.min_level > 0 /\ HasAccepted(cpu))
              => LevelTracks(cpu)
        /\ (hd.made /\ LevelsInRange(hd.c) /\ hd.c.min_level > 0 /\ HasAccepted(hd))
              => LevelTracks(hd)

\* main() has ended: at the start, without a zone, or with an exception.
Ended == pc \in {"exit 7", "exit 8", "raised"}

\* A step of the loop is the CPU zone's call, then the HD zone's, then the
\* sleep, and then the CPU zone's call again; each enabled zone's run() is
\* called at its place.
LoopOrder ==
    [][/\ pc' = "hd" => pc = "cpu"
       /\ pc' = "sleep" => pc = "hd"
       /\ pc' = "cpu" => pc \in {"wait", "sleep"}
       /\ (pc = "cpu" /\ conf.cpu_enabled) => tick'.name = "CPU zone" /\ tick'.time = now
       /\ (pc = "hd" /\ conf.hd_enabled) => tick'.name = "HD zone" /\ tick'.time = now]_vars

StartsAgain == pc = "sleep" /\ pc' = "cpu"

TimePasses == now' # now

CpuSamples == pc = "cpu" /\ tick'.name = "CPU zone" /\ tick'.passed /\ tick'.sampled

HdSamples == pc = "hd" /\ tick'.name = "HD zone" /\ tick'.passed /\ tick'.sampled

\* C32: the loop has no end of its own: unless a call raises (or main() ends
\* before the loop), the loop starts again for ever, with the CPU zone's call
\* before the HD zone's in every iteration; and if moreover time goes on
\* passing, every enabled zone passes its polling gate and reads its
\* temperature again and again.
C32_LoopForever ==
    /\ LoopOrder
    /\ <>Ended \/ []<><<StartsAgain>>_vars
    /\ []<><<TimePasses>>_vars =>
          /\ <>Ended \/ ~conf.cpu_enabled \/ []<><<CpuSamples>>_vars
          /\ <>Ended \/ ~conf.hd_enabled \/ []<><<HdSamples>>_vars

\* The sampling without the premise that time goes on passing.
C32_SamplesUnconditionally ==
    /\ <>Ended \/ ~conf.cpu_enabled \/ []<><<CpuSamples>>_vars
    /\ <>Ended \/ ~conf.hd_enabled \/ []<><<HdSamples>>_vars

\* The HD zone is sampled again after the clock was set back, beside an
\* enabled CPU zone: the loop has gone on past MaxTime.
C32_Witness ==
    /\ conf.cpu_enabled /\ conf.hd_enabled
    /\ tick.name = "HD zone" /\ tick.passed /\ tick.sampled
    /\ tick.before.last_time < 0 /\ tick.before.last_level > 0
    /\ cpu.last_level > 0

====
